---- MODULE Spec2Model ----
(***************************************************************************)
(* Clause segmentation and risk scoring of the SME contract risk bot       *)
(* (clause_extractor.py, utils.py, language_detector.py).                  *)
(*                                                                         *)
(* A Python str is modelled as a sequence of Unicode code points, so that  *)
(* lower-casing, the regular expressions and the substring tests are       *)
(* computed character by character as the code computes them.  Every       *)
(* tuple of numbers below is followed by the text it spells.  The texts    *)
(* used are drawn from ASCII, the Devanagari block and the two dashes of   *)
(* the numbering pattern; the character classes are exact on that alphabet.*)
(***************************************************************************)
EXTENDS Integers, Sequences, FiniteSets

VARIABLES
    detect,     \* language_detector.detect: "absent" (import failed) or "present"
    clause,     \* the clause handed to analyze_clause_risk
    findings,   \* <<>> before analyze_clause_risk(clause) is called, then the
                \* result of its latest call
    text,       \* the document handed to extract_clauses
    runs,       \* <<>> before extract_clauses(text) is called, then the clause
                \* list its latest call returned
    rows,       \* <<>> before the loop of app.py over the clauses has run, then
                \* the rows it built from the clause list in runs
    outcome,    \* <<>> before one of the helper functions is called on clause,
                \* then the record of its latest call; in the app, the record
                \* of the call of delete_analysis in the latest script run,
                \* <<>> when that run made none
    config,     \* the deployment: the database of DATABASE_URL and whether
                \* the embedding model could be loaded
    db,         \* the tables analyses, clauses and embeddings and the
                \* AUTOINCREMENT counter of analyses
    session,    \* st.session_state of each browser session: a dict
    script      \* where the script run of each session stands: <<>> between
                \* runs, or the embeddings that the save handler has yet to
                \* write

vars == <<detect, clause, findings, text, runs, rows, outcome,
          config, db, session, script>>

-----------------------------------------------------------------------------
(* Bounds of the model *)

\* number of phrases a clause input is assembled from
MaxClauseFrags == 2
\* number of pieces a document input is assembled from
MaxDocFrags == 2

-----------------------------------------------------------------------------
(* Characters: str.lower, str.strip and the classes \s \d \w of Python's re *)

IsSpace(c) == c \in {9, 10, 11, 12, 13, 28, 29, 30, 31, 32, 133, 160}

\* \d matches the ASCII digits and the Devanagari digits U+0966..U+096F
IsDigit(c) == c \in (48..57) \cup (2406..2415)

IsDevanagari(c) == c \in 2304..2431

IsAsciiLetter(c) == c \in (65..90) \cup (97..122)

\* \w: alphanumerics and underscore; the Devanagari signs (matras, virama,
\* anusvara, danda) are not word characters
IsWordChar(c) ==
    \/ IsAsciiLetter(c)
    \/ IsDigit(c)
    \/ c = 95
    \/ c \in (2308..2361) \cup {2365, 2384} \cup (2392..2401) \cup (2417..2431)

LowerChar(c) == IF c \in 65..90 THEN c + 32 ELSE c

Lower(t) == [i \in 1..Len(t) |-> LowerChar(t[i])]

MatchAt(t, i, p) ==
    /\ i >= 1
    /\ i + Len(p) - 1 <= Len(t)
    /\ \A j \in 1..Len(p) : t[i + j - 1] = p[j]

\* Python's  p in t
Contains(t, p) == \E i \in 1..(Len(t) - Len(p) + 1) : MatchAt(t, i, p)

StartsWith(t, p) == MatchAt(t, 1, p)

\* the phrases of a list that are found in hay (Python's  w in hay), in list order
Matched(kws, hay) == SelectSeq(kws, LAMBDA k : Contains(hay, k))

\* the character at index k, or 0 (a character of no class) outside the text
At(t, k) == IF k \in 1..Len(t) THEN t[k] ELSE 0

\* first and last index of the run of whitespace that holds index i
RECURSIVE RunStart(_, _)
RunStart(t, i) == IF i = 1 \/ ~IsSpace(t[i - 1]) THEN i ELSE RunStart(t, i - 1)

RECURSIVE RunEnd(_, _)
RunEnd(t, i) == IF i = Len(t) \/ ~IsSpace(t[i + 1]) THEN i ELSE RunEnd(t, i + 1)

\* str.strip(): the text without its leading and trailing whitespace
Strip(t) ==
    IF Len(t) = 0 THEN <<>>
    ELSE LET lo == IF IsSpace(t[1]) THEN RunEnd(t, 1) + 1 ELSE 1
             hi == IF IsSpace(t[Len(t)]) THEN RunStart(t, Len(t)) - 1 ELSE Len(t)
         IN  IF lo > hi THEN <<>> ELSE SubSeq(t, lo, hi)

\* re.sub(cls, ' ', t) for a one-character class given by its complement Keep
ReplaceOutside(t, Keep(_)) == [i \in 1..Len(t) |-> IF Keep(t[i]) THEN t[i] ELSE 32]

\* the concatenation of the pieces ps[lo] .. ps[hi]
RECURSIVE ConcatRange(_, _, _)
ConcatRange(ps, lo, hi) ==
    IF lo > hi THEN <<>>
    ELSE IF lo = hi THEN ps[lo]
    ELSE LET mid == (lo + hi) \div 2
         IN  ConcatRange(ps, lo, mid) \o ConcatRange(ps, mid + 1, hi)

Concat(ps) == ConcatRange(ps, 1, Len(ps))

\* re.sub(r'\s+', ' ', t): the first character of a whitespace run becomes
\* one space, the others vanish
CollapseSpaces(t) ==
    Concat([i \in 1..Len(t) |->
                IF ~IsSpace(t[i]) THEN <<t[i]>>
                ELSE IF i > 1 /\ IsSpace(t[i - 1]) THEN <<>>
                ELSE <<32>>])

\* the elements of a finite set of integers in increasing order
RECURSIVE SortedSeq(_)
SortedSeq(S) ==
    IF S = {} THEN <<>>
    ELSE LET m == CHOOSE x \in S : \A y \in S : x <= y
         IN  <<m>> \o SortedSeq(S \ {m})

\* the pieces of t when it is cut before each index of cuts (re.split on
\* zero-width matches)
CutBefore(t, cuts) ==
    LET cs == SortedSeq(cuts)
    IN  [k \in 1..(Len(cs) + 1) |->
            SubSeq(t, IF k = 1 THEN 1 ELSE cs[k - 1],
                      IF k = Len(cs) + 1 THEN Len(t) ELSE cs[k] - 1)]

\* \b at the gap before index i: exactly one side is a word character
WordBoundary(t, i) == IsWordChar(At(t, i - 1)) # IsWordChar(At(t, i))

-----------------------------------------------------------------------------
(* language_detector.py *)

TagUnknown == <<117, 110, 107, 110, 111, 119, 110>> (* "unknown" *)
TagHindi == <<104, 105, 110, 100, 105>> (* "hindi" *)
TagEnglish == <<101, 110, 103, 108, 105, 115, 104>> (* "english" *)
CodeHi == <<104, 105>> (* "hi" *)
CodeEn == <<101, 110>> (* "en" *)

\* What one call of langdetect's detect() can do: answer a language code
\* (CodeEn stands for every code that does not begin with "hi") or raise.
DetectAnswers == {"hi", "en", "raise"}

\* what a call of detect_language can get from the classifier: nothing to
\* ask when the import failed, any of its answers otherwise
CallAnswers(det) == IF det = "present" THEN DetectAnswers ELSE {"none"}

HasDevanagari(t) == \E i \in 1..Len(t) : IsDevanagari(t[i])

\* detect_language without the test for Devanagari in its heuristic
detect_languageNoHindi(t, det, ans) ==
    IF Len(t) = 0 \/ Len(Strip(t)) = 0 THEN TagUnknown
    ELSE IF det = "present" /\ ans = "hi" THEN CodeHi
    ELSE IF det = "present" /\ ans = "en" THEN CodeEn
    ELSE TagEnglish

\* det is the module-level detect ("absent" or "present"), ans what the
\* classifier does when it is called
detect_language(t, det, ans) ==
    IF Len(t) = 0 \/ Len(Strip(t)) = 0 THEN TagUnknown
    ELSE IF det = "present" /\ ans = "hi" THEN CodeHi
    ELSE IF det = "present" /\ ans = "en" THEN CodeEn
    ELSE IF HasDevanagari(t) THEN TagHindi
    ELSE TagEnglish

KeepHindi(c) == IsDevanagari(c) \/ IsSpace(c)

KeepEnglish(c) == IsWordChar(c) \/ IsSpace(c)

clean_hindi(t) == Strip(CollapseSpaces(ReplaceOutside(Lower(t), KeepHindi)))

clean_english(t) == Strip(CollapseSpaces(ReplaceOutside(Lower(t), KeepEnglish)))

normalize_text(t, det, ans) ==
    IF StartsWith(detect_language(t, det, ans), TagHindi)
    THEN clean_hindi(t)
    ELSE clean_english(t)

\* ClassifierCall without the except clause: the exception leaves the try
ClassifierCallUncaught(det, ans) ==
    IF det = "present" /\ ans \in {"hi", "en"} THEN "return"
    ELSE IF det = "present" /\ ans = "raise" THEN "raise"
    ELSE "pass"

\* What becomes of  if detect: try: lang = detect(text); if lang: return lang
\* except Exception: pass  -- "return": the code of the classifier is
\* returned; "pass": detect is None, or the call raised and the except
\* clause swallowed the exception, and the heuristic follows; "raise" would
\* be an exception that leaves detect_language.
ClassifierCall(det, ans) ==
    IF det = "present" /\ ans \in {"hi", "en"} THEN "return"
    ELSE "pass"

\* an exception leaves detect_language(t): the classifier is asked only
\* about a text that is not blank
detect_languageRaises(t, det, ans) ==
    /\ Len(t) # 0
    /\ Len(Strip(t)) # 0
    /\ ClassifierCall(det, ans) = "raise"

\* normalize_text calls detect_language(text) outside any try
normalize_textRaises(t, det, ans) == detect_languageRaises(t, det, ans)

-----------------------------------------------------------------------------
(* utils.py: keyword configuration *)

HIGH_RISK_KEYWORDS_EN == <<
    <<117, 110, 108, 105, 109, 105, 116, 101, 100, 32, 108, 105, 97, 98, 105, 108, 105, 116, 121>> (* "unlimited liability" *),
    <<119, 105, 116, 104, 111, 117, 116, 32, 108, 105, 109, 105, 116, 97, 116, 105, 111, 110>> (* "without limitation" *),
    <<116, 101, 114, 109, 105, 110, 97, 116, 101, 32, 97, 116, 32, 97, 110, 121, 32, 116, 105, 109, 101>> (* "terminate at any time" *),
    <<119, 105, 116, 104, 111, 117, 116, 32, 110, 111, 116, 105, 99, 101>> (* "without notice" *),
    <<110, 111, 32, 99, 111, 109, 112, 101, 110, 115, 97, 116, 105, 111, 110>> (* "no compensation" *),
    <<105, 110, 100, 101, 109, 110, 105, 102, 121>> (* "indemnify" *),
    <<104, 111, 108, 100, 32, 104, 97, 114, 109, 108, 101, 115, 115>> (* "hold harmless" *),
    <<97, 115, 115, 105, 103, 110, 32, 97, 108, 108, 32, 114, 105, 103, 104, 116, 115>> (* "assign all rights" *),
    <<115, 111, 108, 101, 32, 100, 105, 115, 99, 114, 101, 116, 105, 111, 110>> (* "sole discretion" *),
    <<105, 114, 114, 101, 118, 111, 99, 97, 98, 108, 101>> (* "irrevocable" *)
    >>

MEDIUM_RISK_KEYWORDS_EN == <<
    <<103, 111, 118, 101, 114, 110, 105, 110, 103, 32, 108, 97, 119>> (* "governing law" *),
    <<106, 117, 114, 105, 115, 100, 105, 99, 116, 105, 111, 110>> (* "jurisdiction" *),
    <<116, 101, 114, 109, 105, 110, 97, 116, 101>> (* "terminate" *),
    <<108, 105, 97, 98, 105, 108, 105, 116, 121>> (* "liability" *),
    <<99, 111, 109, 112, 101, 110, 115, 97, 116, 105, 111, 110>> (* "compensation" *),
    <<112, 101, 110, 97, 108, 116, 121>> (* "penalty" *),
    <<108, 105, 113, 117, 105, 100, 97, 116, 101, 100, 32, 100, 97, 109, 97, 103, 101, 115>> (* "liquidated damages" *),
    <<97, 117, 116, 111, 45, 114, 101, 110, 101, 119>> (* "auto-renew" *),
    <<114, 101, 110, 101, 119, 97, 108>> (* "renewal" *),
    <<108, 111, 99, 107, 45, 105, 110>> (* "lock-in" *)
    >>

HIGH_RISK_KEYWORDS_HI == <<
    <<2309, 2360, 2368, 2350, 2367, 2340, 32, 2342, 2366, 2351, 2367, 2340, 2381, 2357>> (* "असीमित दायित्व" *),
    <<2346, 2370, 2352, 2381, 2339, 32, 2325, 2381, 2359, 2340, 2367, 2346, 2370, 2352, 2381, 2340, 2367>> (* "पूर्ण क्षतिपूर्ति" *),
    <<2319, 2325, 2340, 2352, 2347, 2366, 32, 2360, 2350, 2366, 2346, 2381, 2340, 2367>> (* "एकतरफा समाप्ति" *),
    <<2349, 2369, 2327, 2340, 2366, 2344, 32, 2352, 2379, 2325, 2366>> (* "भुगतान रोका" *),
    <<2349, 2357, 2367, 2359, 2381, 2351, 32, 2325, 2375, 32, 2342, 2366, 2357, 2379, 2306, 32, 2325, 2366, 32, 2346, 2352, 2367, 2340, 2381, 2351, 2366, 2327>> (* "भविष्य के दावों का परित्याग" *)
    >>

MEDIUM_RISK_KEYWORDS_HI == <<
    <<2357, 2367, 2357, 2366, 2342>> (* "विवाद" *),
    <<2344, 2381, 2351, 2366, 2351, 2366, 2354, 2351>> (* "न्यायालय" *),
    <<2327, 2379, 2346, 2344, 2368, 2351, 2340, 2366>> (* "गोपनीयता" *),
    <<2342, 2306, 2337>> (* "दंड" *),
    <<2325, 2366, 2344, 2370, 2344, 2368>> (* "कानूनी" *)
    >>

\* score += 3 for a high-risk keyword
HighWeight == 3

\* score += 1 for a medium-risk keyword
MediumWeight == 1

\* score += 1 for the obligation pattern
ObligationPenalty == 1

\* len(obligations) >= 3
ObligationCount == 3

HighCut == 5

MediumCut == 2

-----------------------------------------------------------------------------
(* utils.py: analyze_clause_risk *)

\* ScanKeywords with the weight of a medium-risk match left out of the score
RECURSIVE ScanKeywordsMissedAdd(_, _, _, _)
ScanKeywordsMissedAdd(kws, hay, weight, acc) ==
    IF kws = <<>> THEN acc
    ELSE ScanKeywordsMissedAdd(Tail(kws), hay, weight,
            IF Contains(hay, Head(kws))
            THEN [score |-> IF weight = MediumWeight THEN acc.score ELSE acc.score + weight,
                  reasons |-> Append(acc.reasons, Head(kws))]
            ELSE acc)

\* one loop  for w in KEYWORDS: if w in hay: score += weight; reasons.append(w)
RECURSIVE ScanKeywords(_, _, _, _)
ScanKeywords(kws, hay, weight, acc) ==
    IF kws = <<>> THEN acc
    ELSE ScanKeywords(Tail(kws), hay, weight,
            IF Contains(hay, Head(kws))
            THEN [score |-> acc.score + weight,
                  reasons |-> Append(acc.reasons, Head(kws))]
            ELSE acc)

\* The obligation pattern is written r'\\bshall\\b|\\bmust\\b|\\bagree to\\b':
\* in a raw string \\ is an escaped backslash, so each alternative matches
\* the literal text  \bshall\b ,  \bmust\b  or  \bagree to\b .
ObligationPatterns == <<
    <<92, 98, 115, 104, 97, 108, 108, 92, 98>> (* "\\bshall\\b" *),
    <<92, 98, 109, 117, 115, 116, 92, 98>> (* "\\bmust\\b" *),
    <<92, 98, 97, 103, 114, 101, 101, 32, 116, 111, 92, 98>> (* "\\bagree to\\b" *)
    >>

\* the positions at or after i where one of the alternatives matches
ObligationHits(c, i) ==
    {j \in i..Len(c) : \E k \in 1..Len(ObligationPatterns) : MatchAt(c, j, ObligationPatterns[k])}

\* len(re.findall(pattern, c)) counted from position i: leftmost match, first
\* alternative that matches there, then on from the end of that match
RECURSIVE CountObligations(_, _)
CountObligations(c, i) ==
    LET hits == ObligationHits(c, i)
    IN  IF hits = {} THEN 0
        ELSE LET j == CHOOSE x \in hits : \A y \in hits : x <= y
                 k == CHOOSE x \in 1..Len(ObligationPatterns) :
                        /\ MatchAt(c, j, ObligationPatterns[x])
                        /\ \A y \in 1..(x - 1) : ~MatchAt(c, j, ObligationPatterns[y])
             IN  1 + CountObligations(c, j + Len(ObligationPatterns[k]))

ObligationReason == <<109, 97, 110, 121, 32, 111, 98, 108, 105, 103, 97, 116, 105, 111, 110, 115, 32, 119, 105, 116, 104, 111, 117, 116, 32, 112, 97, 121, 109, 101, 110, 116>> (* "many obligations without payment" *)

PaymentWord == <<112, 97, 121, 109, 101, 110, 116>> (* "payment" *)

NoReasons == <<78, 111, 32, 115, 116, 114, 111, 110, 103, 32, 114, 105, 115, 107, 32, 105, 110, 100, 105, 99, 97, 116, 111, 114, 115, 32, 100, 101, 116, 101, 99, 116, 101, 100, 46>> (* "No strong risk indicators detected." *)

ReasonSeparator == <<44, 32>> (* ", " *)

ObligationStep(c, acc) ==
    IF CountObligations(c, 1) >= ObligationCount /\ ~Contains(c, PaymentWord)
    THEN [score |-> acc.score + ObligationPenalty,
          reasons |-> Append(acc.reasons, ObligationReason)]
    ELSE acc

\* RiskLabel with > written for >=
RiskLabelStrict(score) ==
    IF score > HighCut THEN "High"
    ELSE IF score > MediumCut THEN "Medium"
    ELSE "Low"

\* the if / elif / else that turns the score into the label
RiskLabel(score) ==
    IF score >= HighCut THEN "High"
    ELSE IF score >= MediumCut THEN "Medium"
    ELSE "Low"

\* ", ".join(reasons)
RECURSIVE JoinReasons(_)
JoinReasons(reasons) ==
    IF reasons = <<>> THEN <<>>
    ELSE IF Len(reasons) = 1 THEN Head(reasons)
    ELSE Head(reasons) \o ReasonSeparator \o JoinReasons(Tail(reasons))

ReasonsCsv(reasons) == IF reasons # <<>> THEN JoinReasons(reasons) ELSE NoReasons

\* ScanAll with the Hindi loops ahead of the English loops
ScanAllHindiFirst(cl, c) ==
    LET a0 == [score |-> 0, reasons |-> <<>>]
        a1 == ScanKeywords(HIGH_RISK_KEYWORDS_HI, cl, HighWeight, a0)
        a2 == ScanKeywords(MEDIUM_RISK_KEYWORDS_HI, cl, MediumWeight, a1)
        a3 == ScanKeywords(HIGH_RISK_KEYWORDS_EN, c, HighWeight, a2)
        a4 == ScanKeywords(MEDIUM_RISK_KEYWORDS_EN, c, MediumWeight, a3)
    IN  ObligationStep(c, a4)

\* the four keyword loops in the order of the code, then the obligation
\* step; cl is the clause as given, c the normalized clause
ScanAll(cl, c) ==
    LET a0 == [score |-> 0, reasons |-> <<>>]
        a1 == ScanKeywords(HIGH_RISK_KEYWORDS_EN, c, HighWeight, a0)
        a2 == ScanKeywords(MEDIUM_RISK_KEYWORDS_EN, c, MediumWeight, a1)
        a3 == ScanKeywords(HIGH_RISK_KEYWORDS_HI, cl, HighWeight, a2)
        a4 == ScanKeywords(MEDIUM_RISK_KEYWORDS_HI, cl, MediumWeight, a3)
    IN  ObligationStep(c, a4)

\* the tuple (label, reasons_csv, score) that analyze_clause_risk returns
analyze_clause_risk(cl, det, ans) ==
    LET c == normalize_text(cl, det, ans)
        acc == ScanAll(cl, c)
    IN  [label |-> RiskLabel(acc.score),
         reasons |-> ReasonsCsv(acc.reasons),
         score |-> acc.score]

\* analyze_clause_risk calls normalize_text(clause) outside any try
analyze_clause_riskRaises(cl, det, ans) == normalize_textRaises(cl, det, ans)

-----------------------------------------------------------------------------
(* Clause inputs of the scorer *)

ClausePhrases == <<
    <<84, 104, 101, 32, 83, 117, 112, 112, 108, 105, 101, 114, 32, 115, 104, 97, 108, 108, 32, 105, 110, 100, 101, 109, 110, 105, 102, 121, 32, 116, 104, 101, 32, 66, 117, 121, 101, 114>> (* "The Supplier shall indemnify the Buyer" *),
    <<85, 78, 76, 73, 77, 73, 84, 69, 68, 32, 76, 73, 65, 66, 73, 76, 73, 84, 89, 32, 97, 112, 112, 108, 105, 101, 115>> (* "UNLIMITED LIABILITY applies" *),
    <<97, 32, 112, 101, 110, 97, 108, 116, 121, 32, 105, 115, 32, 100, 117, 101>> (* "a penalty is due" *),
    <<82, 101, 110, 101, 119, 97, 108, 32, 105, 115, 32, 97, 117, 116, 111, 109, 97, 116, 105, 99>> (* "Renewal is automatic" *),
    <<116, 104, 101, 32, 116, 101, 114, 109, 32, 119, 105, 108, 108, 32, 97, 117, 116, 111, 45, 114, 101, 110, 101, 119, 32, 119, 105, 116, 104, 32, 97, 32, 76, 79, 67, 75, 45, 73, 78>> (* "the term will auto-renew with a LOCK-IN" *),
    <<2309, 2360, 2368, 2350, 2367, 2340, 32, 2342, 2366, 2351, 2367, 2340, 2381, 2357, 32, 2354, 2366, 2327, 2370, 32, 2361, 2379, 2327, 2366>> (* "असीमित दायित्व लागू होगा" *),
    <<2325, 2367, 2360, 2368, 32, 2349, 2368, 32, 2357, 2367, 2357, 2366, 2342, 32, 2350, 2375, 2306, 32, 115, 104, 97, 108, 108, 44, 32, 109, 117, 115, 116, 32, 97, 110, 100, 32, 97, 103, 114, 101, 101, 32, 116, 111, 32, 92, 98, 115, 104, 97, 108, 108, 92, 98, 32, 92, 98, 109, 117, 115, 116, 92, 98, 32, 92, 98, 115, 104, 97, 108, 108, 92, 98>> (* "किसी भी विवाद में shall, must and agree to \\bshall\\b \\bmust\\b \\bshall\\b" *)
    >>

ScenarioClause1 == <<49, 46, 32, 84, 104, 101, 32, 69, 109, 112, 108, 111, 121, 101, 101, 32, 115, 104, 97, 108, 108, 32, 105, 110, 100, 101, 109, 110, 105, 102, 121, 32, 116, 104, 101, 32, 67, 111, 109, 112, 97, 110, 121, 32, 119, 105, 116, 104, 111, 117, 116, 32, 108, 105, 109, 105, 116, 97, 116, 105, 111, 110, 46>> (* "1. The Employee shall indemnify the Company without limitation." *)

ScenarioClause2 == <<50, 46, 32, 84, 104, 105, 115, 32, 65, 103, 114, 101, 101, 109, 101, 110, 116, 32, 105, 115, 32, 103, 111, 118, 101, 114, 110, 101, 100, 32, 98, 121, 32, 116, 104, 101, 32, 108, 97, 119, 115, 32, 111, 102, 32, 68, 101, 108, 104, 105, 46>> (* "2. This Agreement is governed by the laws of Delhi." *)

\* the phrases numbered by pick, joined by single spaces
RECURSIVE JoinPhrases(_)
JoinPhrases(pick) ==
    IF Len(pick) = 0 THEN <<>>
    ELSE IF Len(pick) = 1 THEN ClausePhrases[pick[1]]
    ELSE ClausePhrases[pick[1]] \o <<32>> \o JoinPhrases(Tail(pick))

\* a clause with four obligation markers and no payment term
ObligationClause == <<84, 104, 101, 32, 83, 117, 112, 112, 108, 105, 101, 114, 32, 115, 104, 97, 108, 108, 32, 100, 101, 108, 105, 118, 101, 114, 44, 32, 115, 104, 97, 108, 108, 32, 105, 110, 115, 117, 114, 101, 32, 97, 110, 100, 32, 109, 117, 115, 116, 32, 97, 103, 114, 101, 101, 32, 116, 111, 32, 97, 117, 100, 105, 116, 115>> (* "The Supplier shall deliver, shall insure and must agree to audits" *)

\* a clause of 23 characters with two high-risk keywords
ShortClause == <<105, 110, 100, 101, 109, 110, 105, 102, 121, 32, 104, 111, 108, 100, 32, 104, 97, 114, 109, 108, 101, 115, 115>> (* "indemnify hold harmless" *)

ClauseInputs ==
    {<<>>, ScenarioClause1, ScenarioClause2, ObligationClause, ShortClause}
    \cup {JoinPhrases(pick) :
            pick \in UNION {[1..n -> 1..Len(ClausePhrases)] : n \in 1..MaxClauseFrags}}

-----------------------------------------------------------------------------
(* The scorer as a state machine: a clause is chosen, then scored again and *)
(* again; each call of the classifier is free to answer as it likes.       *)

InitScore ==
    /\ detect \in {"absent", "present"}
    /\ clause \in ClauseInputs
    /\ findings = <<>>
    /\ text = <<>>
    /\ runs = <<>>
    /\ rows = <<>>
    /\ outcome = <<>>
    /\ config = <<>>
    /\ db = <<>>
    /\ session = <<>>
    /\ script = <<>>

\* one call analyze_clause_risk(clause); what the classifier did in the call
\* (ans) is kept beside the tuple returned (out)
AnalyzeClauseRisk ==
    /\ \E ans \in CallAnswers(detect) :
          findings' = <<[ans |-> ans, out |-> analyze_clause_risk(clause, detect, ans)]>>
    /\ UNCHANGED <<detect, clause, text, runs, rows, outcome,
                 config, db, session, script>>

NextScore == AnalyzeClauseRisk

SpecScore == InitScore /\ [][NextScore]_vars

-----------------------------------------------------------------------------
(* Properties of the scorer *)

\* the normalized clause of the call logged in f
NormalizedOf(f) == normalize_text(clause, detect, f.ans)

\* the matched keywords of the call logged in f, in the order the four lists are checked
MatchedReasons(f) ==
    Matched(HIGH_RISK_KEYWORDS_EN, NormalizedOf(f))
    \o Matched(MEDIUM_RISK_KEYWORDS_EN, NormalizedOf(f))
    \o Matched(HIGH_RISK_KEYWORDS_HI, clause)
    \o Matched(MEDIUM_RISK_KEYWORDS_HI, clause)

ObligationApplies(f) ==
    /\ CountObligations(NormalizedOf(f), 1) >= 3
    /\ ~Contains(NormalizedOf(f), PaymentWord)

\* C1: every returned label is High exactly when the returned score is >= 5,
\* Medium exactly when 2 <= score < 5 and Low exactly when score < 2.
C1_LabelFollowsScore ==
    \A i \in DOMAIN findings :
        LET r == findings[i].out
        IN  /\ (r.label = "High") <=> (r.score >= 5)
            /\ (r.label = "Medium") <=> (2 <= r.score /\ r.score < 5)
            /\ (r.label = "Low") <=> (r.score < 2)

\* a clause scoring exactly 5 has been scored and labelled High
C1_Witness ==
    \E i \in DOMAIN findings : findings[i].out.score = 5 /\ findings[i].out.label = "High"

\* the other two boundary cases of C1
C1_WitnessMedium ==
    \E i \in DOMAIN findings : findings[i].out.score = 2 /\ findings[i].out.label = "Medium"

C1_WitnessLow ==
    \E i \in DOMAIN findings : findings[i].out.score = 1 /\ findings[i].out.label = "Low"

\* C2: the returned score is the sum of the weights of the matched keywords,
\* a high-risk keyword weighing between 3 and 4 and a medium-risk keyword
\* between 1 and 2, plus the obligation penalty when it applies; a clause
\* matching no keyword scores 0.
C2_ScoreIsWeightSum ==
    \E wh \in 3..4 : \E wm \in 1..2 :
        \A i \in DOMAIN findings :
            LET f == findings[i]
                c == NormalizedOf(f)
                nHigh == Len(Matched(HIGH_RISK_KEYWORDS_EN, c))
                         + Len(Matched(HIGH_RISK_KEYWORDS_HI, clause))
                nMedium == Len(Matched(MEDIUM_RISK_KEYWORDS_EN, c))
                           + Len(Matched(MEDIUM_RISK_KEYWORDS_HI, clause))
                penalty == IF ObligationApplies(f) THEN 1 ELSE 0
            IN  /\ f.out.score = wh * nHigh + wm * nMedium + penalty
                /\ (nHigh = 0 /\ nMedium = 0 /\ penalty = 0) => f.out.score = 0

\* a clause matching a high-risk and two medium-risk keywords has been scored
C2_Witness ==
    \E i \in DOMAIN findings :
        /\ Len(Matched(HIGH_RISK_KEYWORDS_EN, NormalizedOf(findings[i]))) >= 1
        /\ Len(Matched(MEDIUM_RISK_KEYWORDS_EN, NormalizedOf(findings[i]))) >= 2
        /\ findings[i].out.score >= 5

\* C3 as claimed: the returned reasons are exactly the matched keyword
\* phrases, each once, in the order the four lists are checked, and they are
\* empty when no keyword matches.
C3_ReasonsAreMatchesOrEmpty ==
    \A i \in DOMAIN findings :
        findings[i].out.reasons = JoinReasons(MatchedReasons(findings[i]))

\* C3 as amended: the returned reasons are the matched keyword phrases, each
\* once, in the order the four lists are checked, joined by ", "; when no
\* keyword matches they are the sentence "No strong risk indicators detected."
C3_ReasonsAreMatchesOrPlaceholder ==
    \A i \in DOMAIN findings :
        LET m == MatchedReasons(findings[i])
        IN  findings[i].out.reasons = IF m = <<>> THEN NoReasons ELSE JoinReasons(m)

\* a clause matching keywords of three of the lists has been scored, and so
\* has a clause matching none
C3_Witness ==
    \E i \in DOMAIN findings :
        /\ Len(Matched(HIGH_RISK_KEYWORDS_EN, NormalizedOf(findings[i]))) >= 1
        /\ Len(Matched(MEDIUM_RISK_KEYWORDS_EN, NormalizedOf(findings[i]))) >= 1
        /\ Len(Matched(HIGH_RISK_KEYWORDS_HI, clause)) >= 1
        /\ findings[i].out.reasons = JoinReasons(MatchedReasons(findings[i]))

C3_WitnessNoMatch ==
    \E i \in DOMAIN findings :
        MatchedReasons(findings[i]) = <<>> /\ findings[i].out.reasons = NoReasons

EnglishKeywords == HIGH_RISK_KEYWORDS_EN \o MEDIUM_RISK_KEYWORDS_EN

HindiKeywords == HIGH_RISK_KEYWORDS_HI \o MEDIUM_RISK_KEYWORDS_HI

\* C4: every configured English keyword that the clause contains in any
\* letter case, and every configured Hindi keyword that the clause contains
\* as it is written, is listed in the returned reasons.
C4_PresentKeywordIsReported ==
    \A i \in DOMAIN findings :
        /\ \A k \in 1..Len(EnglishKeywords) :
              Contains(Lower(clause), EnglishKeywords[k])
                  => Contains(findings[i].out.reasons, EnglishKeywords[k])
        /\ \A k \in 1..Len(HindiKeywords) :
              Contains(clause, HindiKeywords[k])
                  => Contains(findings[i].out.reasons, HindiKeywords[k])

\* C7: the first clause of the scenario is labelled High, its reasons naming
\* "indemnify" and "without limitation", and the second is labelled Medium.
C7_ScenarioLabels ==
    \A i \in DOMAIN findings :
        /\ clause = ScenarioClause1 =>
              /\ findings[i].out.label = "High"
              /\ Contains(findings[i].out.reasons, HIGH_RISK_KEYWORDS_EN[6])
              /\ Contains(findings[i].out.reasons, HIGH_RISK_KEYWORDS_EN[2])
        /\ clause = ScenarioClause2 => findings[i].out.label = "Medium"

\* C8: a clause containing the phrase "असीमित दायित्व" is labelled High and
\* its reasons contain that phrase.
C8_UnlimitedLiabilityHindiIsHigh ==
    \A i \in DOMAIN findings :
        Contains(clause, HIGH_RISK_KEYWORDS_HI[1]) =>
            /\ findings[i].out.label = "High"
            /\ Contains(findings[i].out.reasons, HIGH_RISK_KEYWORDS_HI[1])

ObligationMarkers == <<<<115, 104, 97, 108, 108>> (* "shall" *), <<109, 117, 115, 116>> (* "must" *), <<97, 103, 114, 101, 101, 32, 116, 111>> (* "agree to" *)>>

\* the number of places where the clause, in any letter case, holds one of
\* the obligation markers as a word
MarkerCount(cl) ==
    Cardinality({j \in 1..Len(cl) :
        \E k \in 1..Len(ObligationMarkers) :
            /\ MatchAt(Lower(SubSeq(cl, j, Len(cl))), 1, ObligationMarkers[k])
            /\ WordBoundary(cl, j)
            /\ WordBoundary(cl, j + Len(ObligationMarkers[k]))})

PaymentTerm(cl) ==
    Contains(Lower(cl), <<112, 97, 121, 109, 101, 110, 116>> (* "payment" *)) \/ Contains(Lower(cl), <<99, 111, 109, 112, 101, 110, 115, 97, 116, 105, 111, 110>> (* "compensation" *))

\* C13: a clause with 3 obligation markers or more and no payment or
\* compensation term gets the flat penalty on top of its keyword weights and
\* the reason about many obligations; a clause with fewer markers, or with a
\* payment term, gets neither.
C13_ObligationPenaltyApplied ==
    \A i \in DOMAIN findings :
        LET f == findings[i]
            c == NormalizedOf(f)
            base == HighWeight * (Len(Matched(HIGH_RISK_KEYWORDS_EN, c))
                                  + Len(Matched(HIGH_RISK_KEYWORDS_HI, clause)))
                    + MediumWeight * (Len(Matched(MEDIUM_RISK_KEYWORDS_EN, c))
                                      + Len(Matched(MEDIUM_RISK_KEYWORDS_HI, clause)))
            added == Contains(f.out.reasons, ObligationReason)
        IN  IF MarkerCount(clause) >= 3 /\ ~PaymentTerm(clause)
            THEN added /\ f.out.score = base + ObligationPenalty
            ELSE ~added /\ f.out.score = base

\* C14: a clause of trimmed length below 30 is labelled Low, whatever
\* keywords it holds.
C14_ShortClauseIsLow ==
    \A i \in DOMAIN findings :
        Len(Strip(clause)) < 30 => findings[i].out.label = "Low"

-----------------------------------------------------------------------------
(* utils.py: looks_like_contract *)

CONTRACT_KEYWORDS_EN == <<
    <<112, 97, 114, 116, 121>> (* "party" *), <<97, 103, 114, 101, 101, 109, 101, 110, 116>> (* "agreement" *), <<116, 101, 114, 109>> (* "term" *), <<116, 101, 114, 109, 105, 110, 97, 116, 101>> (* "terminate" *), <<108, 105, 97, 98, 105, 108, 105, 116, 121>> (* "liability" *), <<105, 110, 100, 101, 109, 110, 105, 102, 121>> (* "indemnify" *),
    <<103, 111, 118, 101, 114, 110, 105, 110, 103, 32, 108, 97, 119>> (* "governing law" *), <<106, 117, 114, 105, 115, 100, 105, 99, 116, 105, 111, 110>> (* "jurisdiction" *), <<99, 111, 110, 102, 105, 100, 101, 110, 116, 105, 97, 108>> (* "confidential" *), <<119, 97, 114, 114, 97, 110, 116, 121>> (* "warranty" *), <<112, 97, 121, 109, 101, 110, 116>> (* "payment" *),
    <<100, 101, 108, 105, 118, 101, 114, 97, 98, 108, 101>> (* "deliverable" *), <<115, 101, 114, 118, 105, 99, 101>> (* "service" *), <<116, 101, 114, 109, 105, 110, 97, 116, 105, 111, 110>> (* "termination" *), <<110, 111, 116, 105, 99, 101>> (* "notice" *), <<99, 111, 109, 112, 101, 110, 115, 97, 116, 105, 111, 110>> (* "compensation" *), <<99, 111, 110, 116, 114, 97, 99, 116>> (* "contract" *)
    >>

CONTRACT_KEYWORDS_HI == <<
    <<2309, 2344, 2369, 2348, 2306, 2343>> (* "अनुबंध" *), <<2360, 2350, 2333, 2380, 2340, 2366>> (* "समझौता" *), <<2342, 2366, 2351, 2367, 2340, 2381, 2357>> (* "दायित्व" *), <<2325, 2381, 2359, 2340, 2367, 2346, 2370, 2352, 2381, 2340, 2367>> (* "क्षतिपूर्ति" *),
    <<2360, 2350, 2366, 2346, 2381, 2340, 2367>> (* "समाप्ति" *), <<2313, 2354, 2381, 2354, 2306, 2328, 2344>> (* "उल्लंघन" *), <<2346, 2325, 2381, 2359>> (* "पक्ष" *), <<2349, 2369, 2327, 2340, 2366, 2344>> (* "भुगतान" *),
    <<2327, 2379, 2346, 2344, 2368, 2351, 2340, 2366>> (* "गोपनीयता" *), <<2344, 2381, 2351, 2366, 2351, 2366, 2354, 2351>> (* "न्यायालय" *), <<2325, 2366, 2344, 2370, 2344, 2368>> (* "कानूनी" *), <<2360, 2350, 2333, 2380, 2340, 2366, 32, 2309, 2357, 2343, 2367>> (* "समझौता अवधि" *)
    >>

\* len(text.strip()) < 80
MinContractLen == 80

\* return score >= 2
ContractCut == 2

\* The three structure patterns are written with doubled backslashes in raw
\* strings (r"\\d+\\.", r"\\bclause\\b|\\bsection\\b", r"\\bparty\\b|\\bparties\\b"),
\* so they match a literal backslash where a class or a boundary was meant.
RECURSIVE LetterRunEnd(_, _, _)
LetterRunEnd(t, i, ch) == IF At(t, i + 1) = ch THEN LetterRunEnd(t, i + 1, ch) ELSE i

\* re.search(r"\\d+\\.", t): backslash, one or more letters d, backslash, any
\* character but a newline
HasNumberedPattern(t) ==
    \E i \in 1..Len(t) :
        /\ t[i] = 92
        /\ At(t, i + 1) = 100
        /\ LET e == LetterRunEnd(t, i + 1, 100)
           IN  At(t, e + 1) = 92 /\ At(t, e + 2) \notin {0, 10}

HasClausePattern(t) == Contains(t, <<92, 98, 99, 108, 97, 117, 115, 101, 92, 98>> (* "\\bclause\\b" *)) \/ Contains(t, <<92, 98, 115, 101, 99, 116, 105, 111, 110, 92, 98>> (* "\\bsection\\b" *))

HasPartyPattern(t) == Contains(t, <<92, 98, 112, 97, 114, 116, 121, 92, 98>> (* "\\bparty\\b" *)) \/ Contains(t, <<92, 98, 112, 97, 114, 116, 105, 101, 115, 92, 98>> (* "\\bparties\\b" *))

\* the score that looks_like_contract adds up
ContractScore(t, det, ans) ==
    LET lang == detect_language(t, det, ans)
        low == Lower(t)
        keywords == IF StartsWith(lang, CodeHi) THEN CONTRACT_KEYWORDS_HI
                    ELSE CONTRACT_KEYWORDS_EN
    IN  Len(Matched([k \in 1..Len(keywords) |-> Lower(keywords[k])], low))
        + (IF HasNumberedPattern(low) THEN 1 ELSE 0)
        + (IF HasClausePattern(low) THEN 1 ELSE 0)
        + (IF HasPartyPattern(low) THEN 1 ELSE 0)

looks_like_contract(t, det, ans) ==
    IF Len(t) = 0 \/ Len(Strip(t)) < MinContractLen THEN FALSE
    ELSE ContractScore(t, det, ans) >= ContractCut

\* looks_like_contract calls detect_language(text) outside any try, once
\* the text has passed the guard on its length
looks_like_contractRaises(t, det, ans) ==
    /\ Len(t) # 0
    /\ Len(Strip(t)) >= MinContractLen
    /\ detect_languageRaises(t, det, ans)

-----------------------------------------------------------------------------
(* utils.py: suggest_alternatives_for_clause *)

\* Python's None: a value that is no str (-1 is no code point)
None == <<-1>>

SuggestLimitIndemnity ==
    <<76, 105, 109, 105, 116, 32, 105, 110, 100, 101, 109, 110, 105, 116, 121, 32, 116, 111, 32, 100, 105, 114, 101, 99, 116, 32, 100, 97, 109, 97, 103, 101, 115, 32, 97, 110, 100, 32, 99, 97, 112, 32, 108, 105, 97, 98, 105, 108, 105, 116, 121, 32, 116, 111, 32, 99, 111, 110, 116, 114, 97, 99, 116, 32, 118, 97, 108, 117, 101, 46>> (* "Limit indemnity to direct damages and cap liability to contract value." *)

SuggestLiabilityCap == <<65, 100, 100, 32, 97, 32, 108, 105, 97, 98, 105, 108, 105, 116, 121, 32, 99, 97, 112, 32, 97, 110, 100, 32, 101, 120, 99, 108, 117, 100, 101, 32, 105, 110, 100, 105, 114, 101, 99, 116, 32, 100, 97, 109, 97, 103, 101, 115, 46>> (* "Add a liability cap and exclude indirect damages." *)

SuggestNoticeAndCure == <<65, 100, 100, 32, 110, 111, 116, 105, 99, 101, 32, 112, 101, 114, 105, 111, 100, 32, 97, 110, 100, 32, 99, 117, 114, 101, 32, 112, 101, 114, 105, 111, 100, 46>> (* "Add notice period and cure period." *)

SuggestArbitration == <<83, 112, 101, 99, 105, 102, 121, 32, 110, 101, 117, 116, 114, 97, 108, 32, 97, 114, 98, 105, 116, 114, 97, 116, 105, 111, 110, 32, 108, 111, 99, 97, 116, 105, 111, 110, 32, 119, 105, 116, 104, 105, 110, 32, 73, 110, 100, 105, 97, 46>> (* "Specify neutral arbitration location within India." *)

\* the phrases looked for in clause.lower() (Latin) and in the clause as it is
\* written (Devanagari)
IndemnityPhrase(cl) ==
    \/ Contains(Lower(cl), <<105, 110, 100, 101, 109, 110, 105, 102>> (* "indemnif" *))
    \/ Contains(Lower(cl), <<104, 111, 108, 100, 32, 104, 97, 114, 109, 108, 101, 115, 115>> (* "hold harmless" *))
    \/ Contains(cl, <<2325, 2381, 2359, 2340, 2367, 2346, 2370, 2352, 2381, 2340, 2367>> (* "क्षतिपूर्ति" *))

UnlimitedLiabilityPhrase(cl) ==
    \/ Contains(Lower(cl), <<117, 110, 108, 105, 109, 105, 116, 101, 100, 32, 108, 105, 97, 98, 105, 108, 105, 116, 121>> (* "unlimited liability" *))
    \/ Contains(cl, <<2309, 2360, 2368, 2350, 2367, 2340, 32, 2342, 2366, 2351, 2367, 2340, 2381, 2357>> (* "असीमित दायित्व" *))

TerminationPhrase(cl) ==
    \/ Contains(Lower(cl), <<116, 101, 114, 109, 105, 110, 97, 116, 101, 32, 97, 116, 32, 97, 110, 121, 32, 116, 105, 109, 101>> (* "terminate at any time" *))
    \/ Contains(cl, <<2319, 2325, 2340, 2352, 2347, 2366, 32, 2360, 2350, 2366, 2346, 2381, 2340, 2367>> (* "एकतरफा समाप्ति" *))

JurisdictionPhrase(cl) ==
    \/ Contains(Lower(cl), <<106, 117, 114, 105, 115, 100, 105, 99, 116, 105, 111, 110>> (* "jurisdiction" *))
    \/ Contains(cl, <<2344, 2381, 2351, 2366, 2351, 2366, 2354, 2351>> (* "न्यायालय" *))

\* suggest_alternatives_for_clause with the test of the label left out of the
\* Medium branch
suggest_alternatives_for_clauseAnyLabel(cl, risk_label) ==
    IF risk_label = "High" /\ IndemnityPhrase(cl) THEN SuggestLimitIndemnity
    ELSE IF risk_label = "High" /\ UnlimitedLiabilityPhrase(cl) THEN SuggestLiabilityCap
    ELSE IF risk_label = "High" /\ TerminationPhrase(cl) THEN SuggestNoticeAndCure
    ELSE IF JurisdictionPhrase(cl) THEN SuggestArbitration
    ELSE None

\* the reasons argument is not read by the code
suggest_alternatives_for_clause(cl, risk_label) ==
    IF risk_label = "High" /\ IndemnityPhrase(cl) THEN SuggestLimitIndemnity
    ELSE IF risk_label = "High" /\ UnlimitedLiabilityPhrase(cl) THEN SuggestLiabilityCap
    ELSE IF risk_label = "High" /\ TerminationPhrase(cl) THEN SuggestNoticeAndCure
    ELSE IF risk_label = "Medium" /\ JurisdictionPhrase(cl) THEN SuggestArbitration
    ELSE None

-----------------------------------------------------------------------------
(* utils.py: strip_html_tags *)

\* re.sub(r'<[^>]*>', '', c) from index i on: a '<' and all up to the next '>'
RECURSIVE RemoveAngleTags(_, _)
RemoveAngleTags(c, i) ==
    LET closes(j) == {m \in (j + 1)..Len(c) : c[m] = 62}
        opens == {j \in i..Len(c) : c[j] = 60 /\ \E m \in (j + 1)..Len(c) : c[m] = 62}
    IN  IF opens = {} THEN SubSeq(c, i, Len(c))
        ELSE LET j == CHOOSE x \in opens : \A y \in opens : x <= y
                 m == CHOOSE x \in closes(j) : \A y \in closes(j) : x <= y
             IN  SubSeq(c, i, j - 1) \o RemoveAngleTags(c, m + 1)

LiteralTags == <<
    <<60, 100, 105, 118, 62>> (* "<div>" *), <<60, 47, 100, 105, 118, 62>> (* "</div>" *), <<60, 115, 112, 97, 110, 62>> (* "<span>" *), <<60, 47, 115, 112, 97, 110, 62>> (* "</span>" *), <<60, 112, 62>> (* "<p>" *), <<60, 47, 112, 62>> (* "</p>" *),
    <<60, 115, 101, 99, 116, 105, 111, 110, 62>> (* "<section>" *), <<60, 47, 115, 101, 99, 116, 105, 111, 110, 62>> (* "</section>" *), <<60, 97, 114, 116, 105, 99, 108, 101, 62>> (* "<article>" *), <<60, 47, 97, 114, 116, 105, 99, 108, 101, 62>> (* "</article>" *)
    >>

\* the literal tag, if any, that (?i)(</?div>|...)\b matches at index j
LiteralTagAt(c, j) ==
    IF At(c, j) # 60 THEN {}
    ELSE {k \in 1..Len(LiteralTags) :
            /\ MatchAt(Lower(SubSeq(c, j, Len(c))), 1, LiteralTags[k])
            /\ WordBoundary(c, j + Len(LiteralTags[k]))}

\* re.sub(r'(?i)(</?div>|</?span>|</?p>|</?section>|</?article>)\b', '', c)
\* from index i on
RECURSIVE RemoveLiteralTags(_, _)
RemoveLiteralTags(c, i) ==
    LET hits == {j \in i..Len(c) : LiteralTagAt(c, j) # {}}
    IN  IF hits = {} THEN SubSeq(c, i, Len(c))
        ELSE LET j == CHOOSE x \in hits : \A y \in hits : x <= y
                 k == CHOOSE x \in LiteralTagAt(c, j) : TRUE
             IN  SubSeq(c, i, j - 1) \o RemoveLiteralTags(c, j + Len(LiteralTags[k]))

-----------------------------------------------------------------------------
(* clause_extractor.py: extract_clauses *)

\* len(text.strip()) < 50
MinTextLen == 50

\* len(cleaned) < 60
MinPartLen == 60

\* len(p.strip()) > 80
MinFallbackLen == 80

\* len(c) > 70
MinFinalLen == 70

Danda == 2404

\* re.sub(r'\r\n?', '\n', text)
NormalizeLineEndings(t) ==
    Concat([i \in 1..Len(t) |->
                IF t[i] = 13 THEN <<10>>
                ELSE IF t[i] = 10 /\ At(t, i - 1) = 13 THEN <<>>
                ELSE <<t[i]>>])

\* re.sub(r'\s*\n\s*\n\s*', '\n\n', t): a maximal run of whitespace that
\* holds two newlines or more becomes "\n\n"
NormalizeParagraphBreaks(t) ==
    Concat([i \in 1..Len(t) |->
                IF ~IsSpace(t[i]) THEN <<t[i]>>
                ELSE LET s == RunStart(t, i)
                         e == RunEnd(t, i)
                     IN  IF Cardinality({k \in s..e : t[k] = 10}) < 2 THEN <<t[i]>>
                         ELSE IF i = s THEN <<10, 10>>
                         ELSE <<>>])

\* re.sub(r'([danda])\s*', r'\1\n', t): the whitespace after a danda is
\* replaced by one newline
NewlineAfterDanda(t) ==
    Concat([i \in 1..Len(t) |->
                IF t[i] = Danda THEN <<Danda, 10>>
                ELSE IF IsSpace(t[i]) /\ At(t, RunStart(t, i) - 1) = Danda THEN <<>>
                ELSE <<t[i]>>])

NormalizeDocument(t) ==
    NewlineAfterDanda(NormalizeParagraphBreaks(NormalizeLineEndings(t)))

IsRoman(c) == c \in {73, 86, 88, 76, 67, 68, 77}

\* the class [.)–—-]
IsNumberDelimiter(c) == c \in {46, 41, 8211, 8212, 45}

RECURSIVE RomanRunEnd(_, _)
RomanRunEnd(t, i) == IF IsRoman(At(t, i + 1)) THEN RomanRunEnd(t, i + 1) ELSE i

\* (?:\d{1,2}|[IVXLCDM]+)[.)–—-]\s+  matches from index j
NumberTokenAt(t, j) ==
    \/ /\ IsDigit(At(t, j))
       /\ IsNumberDelimiter(At(t, j + 1))
       /\ IsSpace(At(t, j + 2))
    \/ /\ IsDigit(At(t, j))
       /\ IsDigit(At(t, j + 1))
       /\ IsNumberDelimiter(At(t, j + 2))
       /\ IsSpace(At(t, j + 3))
    \/ /\ IsRoman(At(t, j))
       /\ LET e == RomanRunEnd(t, j)
          IN  IsNumberDelimiter(At(t, e + 1)) /\ IsSpace(At(t, e + 2))

\* the lookahead (?=(?:^|\s)<number token>) holds in front of index i
NumberedSplitAt(t, i) ==
    \/ i = 1 /\ NumberTokenAt(t, 1)
    \/ IsSpace(At(t, i)) /\ NumberTokenAt(t, i + 1)

\* re.split(numbered_split, t); a match in front of the first character only
\* adds an empty first part, which the loop skips
NumberedParts(t) == CutBefore(t, {i \in 2..Len(t) : NumberedSplitAt(t, i)})

GateWordsEn == <<
    <<115, 104, 32, 97, 108, 108>> (* "sh all" *), <<109, 117, 115, 116>> (* "must" *), <<108, 105, 97, 98, 105, 108, 105, 116, 121>> (* "liability" *), <<116, 101, 114, 109, 105, 110, 97, 116, 101>> (* "terminate" *), <<105, 110, 100, 101, 109, 110>> (* "indemn" *), <<112, 97, 121, 109, 101, 110, 116>> (* "payment" *),
    <<112, 97, 114, 116, 121>> (* "party" *), <<98, 114, 101, 97, 99, 104>> (* "breach" *), <<99, 111, 110, 102, 105, 100, 101, 110, 116, 105, 97, 108>> (* "confidential" *), <<117, 110, 108, 105, 109, 105, 116, 101, 100>> (* "unlimited" *), <<115, 111, 108, 101, 32, 100, 105, 115, 99, 114, 101, 116, 105, 111, 110>> (* "sole discretion" *)
    >>

GateWordsHi == <<
    <<2342, 2366, 2351, 2367, 2340, 2381, 2357>> (* "दायित्व" *), <<2325, 2381, 2359, 2340, 2367, 2346, 2370, 2352, 2381, 2340, 2367>> (* "क्षतिपूर्ति" *), <<2360, 2350, 2366, 2346, 2381, 2340, 2367>> (* "समाप्ति" *), <<2349, 2369, 2327, 2340, 2366, 2344>> (* "भुगतान" *), <<2327, 2379, 2346, 2344, 2368, 2351, 2340, 2366>> (* "गोपनीयता" *),
    <<2309, 2344, 2369, 2348, 2306, 2343>> (* "अनुबंध" *), <<2346, 2325, 2381, 2359>> (* "पक्ष" *), <<2313, 2340, 2381, 2340, 2352, 2342, 2366, 2351, 2368>> (* "उत्तरदायी" *), <<2342, 2306, 2337>> (* "दंड" *), <<2357, 2367, 2357, 2366, 2342>> (* "विवाद" *)
    >>

\* re.search(r'\b(sh all|must|...)\b', cleaned, re.I)
HasGateWordEn(t) ==
    LET low == Lower(t)
    IN  \E k \in 1..Len(GateWordsEn) : \E i \in 1..Len(t) :
            /\ MatchAt(low, i, GateWordsEn[k])
            /\ WordBoundary(t, i)
            /\ WordBoundary(t, i + Len(GateWordsEn[k]))

HasGateWordHi(t) == \E k \in 1..Len(GateWordsHi) : Contains(t, GateWordsHi[k])

\* the content gate of the loop over the parts: the part is appended
PassesGate(cleaned, det, ans) ==
    \/ looks_like_contract(cleaned, det, ans)
    \/ HasGateWordEn(cleaned)
    \/ HasGateWordHi(cleaned)

\* the parts the first loop appends to clauses; oracle[k] is what the
\* classifier does when it is asked about part k
NumberedClauses(t, det, oracle) ==
    LET parts == NumberedParts(t)
    IN  Concat([k \in 1..Len(parts) |->
                   LET cleaned == Strip(parts[k])
                   IN  IF Len(cleaned) = 0 THEN <<>>
                       ELSE IF Len(cleaned) < MinPartLen THEN <<>>
                       ELSE IF ~PassesGate(cleaned, det,
                                           IF k \in DOMAIN oracle THEN oracle[k] ELSE "none")
                            THEN <<>>
                       ELSE <<cleaned>>])

\* the lookahead (?=\d+[.)]|\s*[A-Z][.)]\s) holds in front of index j
RECURSIVE DigitRunEnd(_, _)
DigitRunEnd(t, i) == IF IsDigit(At(t, i + 1)) THEN DigitRunEnd(t, i + 1) ELSE i

FallbackLookahead(t, j) ==
    \/ /\ IsDigit(At(t, j))
       /\ At(t, DigitRunEnd(t, j) + 1) \in {46, 41}
    \/ LET k == IF IsSpace(At(t, j)) THEN RunEnd(t, j) + 1 ELSE j
       IN  \E m \in j..k :
              /\ At(t, m) \in 65..90
              /\ At(t, m + 1) \in {46, 41}
              /\ IsSpace(At(t, m + 2))

RECURSIVE NewlineRunEnd(_, _)
NewlineRunEnd(t, i) == IF At(t, i + 1) = 10 THEN NewlineRunEnd(t, i + 1) ELSE i

\* the length of the match of \n{2,}(?=...) that starts at index i, 0 if none:
\* the longest run of newlines from i that the lookahead accepts
FallbackMatchLen(t, i) ==
    IF At(t, i) # 10 THEN 0
    ELSE LET e == NewlineRunEnd(t, i)
             ok == {n \in 2..(e - i + 1) : FallbackLookahead(t, i + n)}
         IN  IF ok = {} THEN 0 ELSE CHOOSE n \in ok : \A m \in ok : m <= n

\* re.split(r'\n{2,}(?=\d+[.)]|\s*[A-Z][.)]\s)', t) from index i on
RECURSIVE FallbackParts(_, _)
FallbackParts(t, i) ==
    LET hits == {j \in i..Len(t) : FallbackMatchLen(t, j) > 0}
    IN  IF hits = {} THEN <<SubSeq(t, i, Len(t))>>
        ELSE LET j == CHOOSE x \in hits : \A y \in hits : x <= y
             IN  <<SubSeq(t, i, j - 1)>> \o FallbackParts(t, j + FallbackMatchLen(t, j))

\* clauses = [p.strip() for p in fallback_parts if len(p.strip()) > 80]
FallbackClauses(t) ==
    LET parts == FallbackParts(t, 1)
    IN  Concat([k \in 1..Len(parts) |->
                   IF Len(Strip(parts[k])) > MinFallbackLen THEN <<Strip(parts[k])>> ELSE <<>>])

\* re.sub(r'<[^>]+>', '', c) from index i on: a '<', one character or more
\* that is not '>', and the next '>'
RECURSIVE RemoveTags(_, _)
RemoveTags(c, i) ==
    LET closes(j) == {m \in (j + 1)..Len(c) : c[m] = 62}
        opens == {j \in i..Len(c) : c[j] = 60 /\ At(c, j + 1) # 62 /\ closes(j) # {}}
    IN  IF opens = {} THEN SubSeq(c, i, Len(c))
        ELSE LET j == CHOOSE x \in opens : \A y \in opens : x <= y
                 m == CHOOSE x \in closes(j) : \A y \in closes(j) : x <= y
             IN  SubSeq(c, i, j - 1) \o RemoveTags(c, m + 1)

\* re.sub(r'</?[^>]*', '', c) from index i on: a '<' and all that follows it
\* up to the next '>' or the end
RECURSIVE RemoveOpenTags(_, _)
RemoveOpenTags(c, i) ==
    LET opens == {j \in i..Len(c) : c[j] = 60}
    IN  IF opens = {} THEN SubSeq(c, i, Len(c))
        ELSE LET j == CHOOSE x \in opens : \A y \in opens : x <= y
                 closes == {m \in (j + 1)..Len(c) : c[m] = 62}
             IN  IF closes = {} THEN SubSeq(c, i, j - 1)
                 ELSE LET m == CHOOSE x \in closes : \A y \in closes : x <= y
                      IN  SubSeq(c, i, j - 1) \o RemoveOpenTags(c, m)

\* the body of the final loop for one clause
CleanClause(c) == Strip(CollapseSpaces(RemoveOpenTags(RemoveTags(c, 1), 1)))

FinalClauses(clauses) ==
    Concat([k \in 1..Len(clauses) |->
               IF Len(CleanClause(clauses[k])) > MinFinalLen
               THEN <<CleanClause(clauses[k])>> ELSE <<>>])

\* the list final of extract_clauses: the clauses that the numbered split or
\* the fallback split accepted and the final cleanup kept
AcceptedClauses(txt, det, oracle) ==
    LET t == NormalizeDocument(txt)
        numbered == NumberedClauses(t, det, oracle)
    IN  FinalClauses(IF Len(numbered) <= 1 THEN FallbackClauses(t) ELSE numbered)

\* the body of extract_clauses with "return final" as its last line
SegmentDocumentNoFallback(txt, det, oracle) ==
    LET t == NormalizeDocument(txt)
        numbered == NumberedClauses(t, det, oracle)
        clauses == IF Len(numbered) <= 1 THEN FallbackClauses(t) ELSE numbered
    IN  FinalClauses(clauses)

\* the body of extract_clauses after the guard on the length of the text
SegmentDocument(txt, det, oracle) ==
    LET t == NormalizeDocument(txt)
        numbered == NumberedClauses(t, det, oracle)
        clauses == IF Len(numbered) <= 1 THEN FallbackClauses(t) ELSE numbered
        final == FinalClauses(clauses)
    IN  IF final # <<>> THEN final ELSE <<Strip(t)>>

\* extract_clauses without its guard on the length of the text
extract_clausesNoGuard(txt, det, oracle) == SegmentDocument(txt, det, oracle)

extract_clauses(txt, det, oracle) ==
    IF Len(txt) = 0 \/ Len(Strip(txt)) < MinTextLen THEN <<>>
    ELSE SegmentDocument(txt, det, oracle)

\* extract_clauses calls looks_like_contract(cleaned) outside any try, for
\* each part that is long enough; oracle[k] is what the classifier does when
\* it is asked about part k
extract_clausesRaises(txt, det, oracle) ==
    /\ Len(txt) # 0
    /\ Len(Strip(txt)) >= MinTextLen
    /\ LET parts == NumberedParts(NormalizeDocument(txt))
       IN  \E k \in DOMAIN oracle :
              /\ Len(Strip(parts[k])) >= MinPartLen
              /\ looks_like_contractRaises(Strip(parts[k]), det, oracle[k])

-----------------------------------------------------------------------------
(* app.py: the loop that turns the clause list into result rows *)

\* utils.strip_html_tags: the four substitutions in the order of the code
strip_html_tags(t) ==
    IF Len(t) = 0 THEN <<>>
    ELSE Strip(CollapseSpaces(
            RemoveOpenTags(RemoveLiteralTags(RemoveAngleTags(t, 1), 1), 1)))

\* the body of the loop for the clause cl that enumerate numbers i; ans is
\* what the classifier does when the clause is scored
RowOf(i, cl, det, ans) ==
    LET c == strip_html_tags(cl)
        f == analyze_clause_risk(c, det, ans)
    IN  [id |-> i,
         clause |-> c,
         risk |-> f.label,
         risk_score |-> f.score,
         reasons |-> f.reasons,
         suggestion |-> suggest_alternatives_for_clause(c, f.label)]

\* BuildRows that numbers every row with the first ordinal
RECURSIVE BuildRowsSameId(_, _, _, _)
BuildRowsSameId(clauses, i, det, answers) ==
    IF clauses = <<>> THEN <<>>
    ELSE <<RowOf(i, Head(clauses), det, Head(answers))>>
         \o BuildRowsSameId(Tail(clauses), i, det, Tail(answers))

\* for i, clause in enumerate(clauses, start=i): rows.append({...})
RECURSIVE BuildRows(_, _, _, _)
BuildRows(clauses, i, det, answers) ==
    IF clauses = <<>> THEN <<>>
    ELSE <<RowOf(i, Head(clauses), det, Head(answers))>>
         \o BuildRows(Tail(clauses), i + 1, det, Tail(answers))

-----------------------------------------------------------------------------
(* Document inputs of the segmenter *)

DocPieces == <<
    <<49, 46, 32, 84, 104, 101, 32, 69, 109, 112, 108, 111, 121, 101, 101, 32, 115, 104, 97, 108, 108, 32, 105, 110, 100, 101, 109, 110, 105, 102, 121, 32, 116, 104, 101, 32, 67, 111, 109, 112, 97, 110, 121, 32, 119, 105, 116, 104, 111, 117, 116, 32, 108, 105, 109, 105, 116, 97, 116, 105, 111, 110, 46>> (* "1. The Employee shall indemnify the Company without limitation." *),
    <<32, 50, 46, 32, 84, 104, 105, 115, 32, 65, 103, 114, 101, 101, 109, 101, 110, 116, 32, 105, 115, 32, 103, 111, 118, 101, 114, 110, 101, 100, 32, 98, 121, 32, 116, 104, 101, 32, 108, 97, 119, 115, 32, 111, 102, 32, 68, 101, 108, 104, 105, 46>> (* " 2. This Agreement is governed by the laws of Delhi." *),
    <<32, 51, 46, 32, 69, 97, 99, 104, 32, 112, 97, 114, 116, 121, 32, 115, 104, 97, 108, 108, 32, 107, 101, 101, 112, 32, 116, 104, 101, 32, 108, 105, 97, 98, 105, 108, 105, 116, 121, 32, 111, 102, 32, 116, 104, 101, 32, 111, 116, 104, 101, 114, 32, 112, 97, 114, 116, 121, 32, 108, 105, 109, 105, 116, 101, 100, 32, 116, 111, 32, 116, 104, 101, 32, 102, 101, 101, 115, 32, 112, 97, 105, 100, 32, 117, 110, 100, 101, 114, 32, 105, 116, 46>> (* " 3. Each party shall keep the liability of the other party limited to the fees paid under it." *),
    <<32, 52, 46, 32, 84, 104, 105, 115, 32, 97, 103, 114, 101, 101, 109, 101, 110, 116, 32, 97, 110, 100, 32, 101, 118, 101, 114, 121, 32, 110, 111, 116, 105, 99, 101, 32, 115, 101, 110, 116, 32, 117, 110, 100, 101, 114, 32, 116, 104, 101, 32, 99, 111, 110, 116, 114, 97, 99, 116, 32, 105, 115, 32, 99, 111, 118, 101, 114, 101, 100, 32, 98, 121, 32, 116, 104, 101, 32, 115, 101, 114, 118, 105, 99, 101, 32, 119, 97, 114, 114, 97, 110, 116, 121, 46>> (* " 4. This agreement and every notice sent under the contract is covered by the service warranty." *),
    <<72, 101, 108, 108, 111, 32, 119, 111, 114, 108, 100, 32, 32, 32, 32, 32, 32, 32, 32, 32>> (* "Hello world         " *),
    <<83, 105, 103, 110, 101, 100, 32, 98, 121, 32, 98, 111, 116, 104, 32, 115, 105, 100, 101, 115, 13, 10, 13, 10, 13, 10, 13, 10, 13, 10, 13, 10, 13, 10, 13, 10, 13, 10, 13, 10, 13, 10, 13, 10, 13, 10, 13, 10, 13, 10, 13, 10>> (* "Signed by both sides\r\n\r\n\r\n\r\n\r\n\r\n\r\n\r\n\r\n\r\n\r\n\r\n\r\n\r\n\r\n\r\n" *),
    <<32, 60, 98, 62, 78, 111, 116, 105, 99, 101, 60, 47, 98, 62, 32, 116, 104, 97, 116, 32, 116, 104, 101, 32, 115, 101, 108, 108, 101, 114, 32, 60, 32, 116, 104, 101, 32, 98, 117, 121, 101, 114, 32>> (* " <b>Notice</b> that the seller < the buyer " *),
    <<32, 73, 86, 41, 32, 2311, 2360, 32, 2309, 2344, 2369, 2348, 2306, 2343, 32, 2350, 2375, 2306, 32, 2309, 2360, 2368, 2350, 2367, 2340, 32, 2342, 2366, 2351, 2367, 2340, 2381, 2357, 32, 2354, 2366, 2327, 2370, 32, 2361, 2379, 2327, 2366, 2404, 32, 2360, 2350, 2333, 2380, 2340, 2366, 32, 2324, 2352, 32, 2344, 2381, 2351, 2366, 2351, 2366, 2354, 2351, 2404, 32, 32>> (* " IV) इस अनुबंध में असीमित दायित्व लागू होगा। समझौता और न्यायालय।  " *),
    <<10, 10, 32, 10, 66, 46, 32, 80, 97, 121, 109, 101, 110, 116, 32, 116, 101, 114, 109, 115, 58, 32, 116, 104, 101, 32, 98, 117, 121, 101, 114, 32, 109, 117, 115, 116, 32, 115, 101, 116, 116, 108, 101, 32, 101, 97, 99, 104, 32, 105, 110, 118, 111, 105, 99, 101, 32, 119, 105, 116, 104, 105, 110, 32, 116, 104, 105, 114, 116, 121, 32, 100, 97, 121, 115, 32, 111, 102, 32, 116, 104, 101, 32, 100, 97, 116, 101, 32, 111, 102, 32, 114, 101, 99, 101, 105, 112, 116, 46>> (* "\n\n \nB. Payment terms: the buyer must settle each invoice within thirty days of the date of receipt." *)
    >>

ScenarioText ==
    <<49, 46, 32, 84, 104, 101, 32, 69, 109, 112, 108, 111, 121, 101, 101, 32, 115, 104, 97, 108, 108, 32, 105, 110, 100, 101, 109, 110, 105, 102, 121, 32, 116, 104, 101, 32, 67, 111, 109, 112, 97, 110, 121, 32, 119, 105, 116, 104, 111, 117, 116, 32, 108, 105, 109, 105, 116, 97, 116, 105, 111, 110, 46, 32, 50, 46, 32, 84, 104, 105, 115, 32, 65, 103, 114, 101, 101, 109, 101, 110, 116, 32, 105, 115, 32, 103, 111, 118, 101, 114, 110, 101, 100, 32, 98, 121, 32, 116, 104, 101, 32, 108, 97, 119, 115, 32, 111, 102, 32, 68, 101, 108, 104, 105, 46>> (* "1. The Employee shall indemnify the Company without limitation. 2. This Agreement is governed by the laws of Delhi." *)

RECURSIVE JoinPieces(_)
JoinPieces(pick) ==
    IF Len(pick) = 0 THEN <<>>
    ELSE DocPieces[pick[1]] \o JoinPieces(Tail(pick))

\* a text without numbering, sentence punctuation or blank line
PlainText ==
    <<84, 104, 101, 32, 98, 117, 121, 101, 114, 32, 97, 110, 100, 32, 116, 104, 101, 32, 115, 101, 108, 108, 101, 114, 32, 97, 103, 114, 101, 101, 32, 32, 32, 116, 111, 32, 119, 111, 114, 107, 32, 116, 111, 103, 101, 116, 104, 101, 114, 10, 105, 110, 32, 103, 111, 111, 100, 32, 102, 97, 105, 116, 104, 32, 111, 110, 32, 101, 118, 101, 114, 121, 32, 111, 114, 100, 101, 114, 32, 112, 108, 97, 99, 101, 100, 32, 117, 110, 100, 101, 114, 32, 105, 116>> (* "The buyer and the seller agree   to work together\nin good faith on every order placed under it" *)

\* two sentences of more than 80 characters each, without numbering
TwoSentenceText ==
    <<84, 104, 101, 32, 98, 117, 121, 101, 114, 32, 119, 105, 108, 108, 32, 99, 111, 108, 108, 101, 99, 116, 32, 101, 118, 101, 114, 121, 32, 111, 114, 100, 101, 114, 32, 102, 114, 111, 109, 32, 116, 104, 101, 32, 119, 97, 114, 101, 104, 111, 117, 115, 101, 32, 111, 102, 32, 116, 104, 101, 32, 115, 101, 108, 108, 101, 114, 32, 119, 105, 116, 104, 105, 110, 32, 116, 101, 110, 32, 119, 111, 114, 107, 105, 110, 103, 32, 100, 97, 121, 115, 32, 111, 102, 32, 116, 104, 101, 32, 110, 111, 116, 105, 99, 101, 46, 32, 84, 104, 101, 32, 115, 101, 108, 108, 101, 114, 32, 119, 105, 108, 108, 32, 107, 101, 101, 112, 32, 101, 97, 99, 104, 32, 111, 114, 100, 101, 114, 32, 105, 110, 32, 97, 32, 100, 114, 121, 32, 97, 110, 100, 32, 99, 108, 101, 97, 110, 32, 115, 116, 111, 114, 101, 32, 114, 111, 111, 109, 32, 117, 110, 116, 105, 108, 32, 116, 104, 101, 32, 98, 117, 121, 101, 114, 32, 104, 97, 115, 32, 99, 111, 108, 108, 101, 99, 116, 101, 100, 32, 97, 108, 108, 32, 111, 102, 32, 105, 116, 46>> (* "The buyer will collect every order from the warehouse of the seller within ten working days of the notice. The seller will keep each order in a dry and clean store room until the buyer has collected all of it." *)

DocInputs ==
    {PlainText, TwoSentenceText}
    \cup {JoinPieces(pick) :
            pick \in UNION {[1..n -> 1..Len(DocPieces)] : n \in 0..MaxDocFrags}}

-----------------------------------------------------------------------------
(* The segmenter as a state machine: a document is chosen, then segmented  *)
(* again and again; the classifier is asked once for each part that        *)
(* reaches detect_language and is free to answer each time as it likes.    *)

\* the parts of the numbered split for which looks_like_contract gets as
\* far as detect_language
ClassifierCalls(txt) ==
    LET parts == NumberedParts(NormalizeDocument(txt))
    IN  {k \in 1..Len(parts) : Len(Strip(parts[k])) >= MinContractLen}

\* what the classifier does, call by call, in one run of extract_clauses
Oracles(txt, det) == [ClassifierCalls(txt) -> CallAnswers(det)]

InitExtract ==
    /\ detect \in {"absent", "present"}
    /\ text \in DocInputs
    /\ runs = <<>>
    /\ clause = <<>>
    /\ findings = <<>>
    /\ rows = <<>>
    /\ outcome = <<>>
    /\ config = <<>>
    /\ db = <<>>
    /\ session = <<>>
    /\ script = <<>>

\* one call extract_clauses(text)
ExtractClauses ==
    /\ \E oracle \in Oracles(text, detect) :
          runs' = <<extract_clauses(text, detect, oracle)>>
    /\ UNCHANGED <<detect, text, clause, findings, rows, outcome,
                 config, db, session, script>>

NextExtract == ExtractClauses

SpecExtract == InitExtract /\ [][NextExtract]_vars

-----------------------------------------------------------------------------
(* The analysis of app.py as a state machine: the uploaded text has been    *)
(* through strip_html_tags (line 206) when it reaches extract_clauses       *)
(* (line 217); the loop (lines 219-247) then builds one row for each        *)
(* clause.  The optional translation of line 214 is left out: the text is   *)
(* segmented as uploaded.                                                   *)

\* the uploaded texts: the plain text, a text with markup, and the texts
\* assembled from the numbered items and the Hindi item of DocPieces
UploadedTexts ==
    {PlainText, DocPieces[7] \o DocPieces[3]}
    \cup {JoinPieces(pick) :
            pick \in UNION {[1..n -> {1, 2, 3, 4, 8}] : n \in 0..MaxDocFrags}}

\* the texts that reach line 217
PipelineInputs == {strip_html_tags(d) : d \in UploadedTexts}

InitPipeline ==
    /\ detect \in {"absent", "present"}
    /\ text \in PipelineInputs
    /\ runs = <<>>
    /\ rows = <<>>
    /\ clause = <<>>
    /\ findings = <<>>
    /\ outcome = <<>>
    /\ config = <<>>
    /\ db = <<>>
    /\ session = <<>>
    /\ script = <<>>

\* line 217: clauses = extract_clauses(normalized_text)
SegmentUpload ==
    /\ runs = <<>>
    /\ \E oracle \in Oracles(text, detect) :
          runs' = <<extract_clauses(text, detect, oracle)>>
    /\ UNCHANGED <<detect, text, clause, findings, rows, outcome,
                 config, db, session, script>>

\* lines 219-247: the loop over the clauses that extract_clauses returned;
\* the classifier is asked once for each clause
AnalyzeClauses ==
    /\ runs # <<>>
    /\ rows = <<>>
    /\ \E answers \in [1..Len(runs[1]) -> CallAnswers(detect)] :
          rows' = <<[answers |-> answers,
                     list |-> BuildRows(runs[1], 1, detect, answers)]>>
    /\ UNCHANGED <<detect, text, runs, clause, findings, outcome,
                 config, db, session, script>>

NextPipeline == SegmentUpload \/ AnalyzeClauses

SpecPipeline == InitPipeline /\ [][NextPipeline]_vars

-----------------------------------------------------------------------------
(* Properties of the segmenter *)

\* C5: a run of extract_clauses on a text returns the clause list that the
\* run before it returned on that text, the classifier being absent or present.
C5_SameTextSameClauses == [][runs # <<>> => runs' = runs]_vars

\* C6: the scenario text yields exactly 2 clauses, the item numbered 1 and
\* the item numbered 2.
C6_ScenarioYieldsTwoClauses ==
    text = ScenarioText =>
        \A i \in DOMAIN runs :
            /\ Len(runs[i]) = 2
            /\ runs[i][1] = ScenarioClause1
            /\ runs[i][2] = ScenarioClause2

\* C9: every returned clause has trimmed length above 70, except the single
\* clause of the whole-document fallback, whose trimmed length is at least 50.
C9_ClausesAboveMinimum ==
    \A i \in DOMAIN runs : \A k \in DOMAIN runs[i] :
        \/ Len(Strip(runs[i][k])) > 70
        \/ Len(runs[i]) = 1 /\ Len(Strip(runs[i][k])) >= 50

\* C10: a text whose trimmed length is below 50 yields the empty list.
C10_ShortTextYieldsNothing ==
    Len(Strip(text)) < 50 => \A i \in DOMAIN runs : runs[i] = <<>>

\* the 20-character text has been segmented, and so has the empty text
C10_Witness ==
    /\ Len(text) = 20
    /\ Len(Strip(text)) < 50
    /\ Len(runs) >= 1
    /\ runs[1] = <<>>

C10_WitnessEmptyText == text = <<>> /\ Len(runs) >= 1 /\ runs[1] = <<>>

\* the clauses cs are successive parts of the document txt, cleaned, in the
\* order of the parts: parts of the numbered split, parts of the fallback
\* split, or the whole document
InDocumentOrder(cs, txt) ==
    LET t == NormalizeDocument(txt)
        Selection(parts) ==
            \E f \in [1..Len(cs) -> 1..Len(parts)] :
                /\ \A a, b \in 1..Len(cs) : a < b => f[a] < f[b]
                /\ \A k \in 1..Len(cs) : cs[k] = CleanClause(Strip(parts[f[k]]))
    IN  \/ cs = <<>>
        \/ cs = <<Strip(t)>>
        \/ Selection(NumberedParts(t))
        \/ Selection(FallbackParts(t, 1))

\* C12: the returned clauses are in the order of their text in the document;
\* the rows built from them carry the ordinals 1, 2, ..., n in that order, and
\* row i holds clause i with the finding and the suggestion computed from it.
C12_RowsFollowClauses ==
    /\ \A r \in DOMAIN runs : InDocumentOrder(runs[r], text)
    /\ \A r \in DOMAIN rows :
          LET cs == runs[1]
              rs == rows[r].list
          IN  /\ Len(rs) = Len(cs)
              /\ \A i \in 1..Len(rs) :
                    LET f == analyze_clause_risk(cs[i], detect, rows[r].answers[i])
                    IN  /\ rs[i].id = i
                        /\ rs[i].clause = strip_html_tags(cs[i])
                        /\ rs[i].risk = f.label
                        /\ rs[i].risk_score = f.score
                        /\ rs[i].reasons = f.reasons
                        /\ rs[i].suggestion = suggest_alternatives_for_clause(cs[i], f.label)

\* a document of two clauses has been segmented and its rows built
C12_Witness ==
    /\ rows # <<>>
    /\ Len(runs[1]) >= 2
    /\ Len(rows[1].list) = Len(runs[1])
    /\ rows[1].list[2].id = 2
    /\ rows[1].list[1].clause # rows[1].list[2].clause

\* a numbering token (number or roman numeral, delimiter, whitespace) starts
\* somewhere in t
HasNumberToken(t) == \E j \in 1..Len(t) : NumberTokenAt(t, j)

\* the characters . ! ? ; : and the danda
HasSentencePunctuation(t) == \E j \in 1..Len(t) : t[j] \in {46, 33, 63, 59, 58, Danda}

\* two line breaks with nothing but whitespace between them
HasBlankLine(t) ==
    LET u == NormalizeLineEndings(t)
    IN  \E j \in 1..Len(u) :
            /\ u[j] = 10
            /\ \E k \in (j + 1)..RunEnd(u, j) : u[k] = 10

\* C11: a text of trimmed length 50 or more that holds no numbering token, no
\* sentence punctuation and no blank line yields exactly one clause, equal to
\* the trimmed text.
C11_PlainTextIsOneClause ==
    (/\ Len(Strip(text)) >= 50
     /\ ~HasNumberToken(text)
     /\ ~HasSentencePunctuation(text)
     /\ ~HasBlankLine(text))
        => \A i \in DOMAIN runs : runs[i] = <<Strip(text)>>

\* a '<' with a '>' somewhere after it
HasMarkup(c) ==
    \E j \in 1..Len(c) : c[j] = 60 /\ \E m \in (j + 1)..Len(c) : c[m] = 62

\* two whitespace characters in a row
HasSpaceRun(c) == \E j \in 1..(Len(c) - 1) : IsSpace(c[j]) /\ IsSpace(c[j + 1])

\* the places after a '.', '!' or '?' that is followed by whitespace
SentenceCuts(t) == {j \in 2..Len(t) : t[j - 1] \in {46, 33, 63} /\ IsSpace(t[j])}

\* the fragments of the sentence split whose trimmed length is above 80
LongSentences(t) ==
    LET parts == CutBefore(t, SentenceCuts(t))
    IN  Concat([k \in 1..Len(parts) |->
                   IF Len(Strip(parts[k])) > 80
                   THEN <<CleanClause(Strip(parts[k]))>> ELSE <<>>])

\* C21: when the numbered split yields fewer than 2 usable clauses (here: the
\* text holds no numbering token), the text is split after each '.', '!' or
\* '?' followed by whitespace and every fragment of trimmed length above 80
\* becomes a clause; the text of two long sentences yields two clauses.
C21_SentenceSplitFallback ==
    (/\ Len(Strip(text)) >= 50
     /\ ~HasNumberToken(text)
     /\ LongSentences(text) # <<>>)
        => \A i \in DOMAIN runs : runs[i] = LongSentences(text)

\* no stage of extract_clauses accepts a fragment of txt, whatever the
\* classifier answers
NoStageAccepts(txt, det) ==
    \A oracle \in Oracles(txt, det) : AcceptedClauses(txt, det, oracle) = <<>>

\* C22 as stated: a text of trimmed length 50 or more yields a non-empty
\* list, and when no stage accepts a fragment the list is the one clause
\* holding the text with its line endings normalized, trimmed.
C22_WholeTextLineEndingsOnly ==
    Len(Strip(text)) >= 50 =>
        \A i \in DOMAIN runs :
            /\ runs[i] # <<>>
            /\ NoStageAccepts(text, detect)
                  => runs[i] = <<Strip(NormalizeLineEndings(text))>>

\* C22 as the code has it: the one clause is the text after the three
\* normalizations of lines 16-18 (line endings, paragraph breaks, newline
\* after a danda), trimmed.
C22_WholeDocumentFallback ==
    Len(Strip(text)) >= 50 =>
        \A i \in DOMAIN runs :
            /\ runs[i] # <<>>
            /\ NoStageAccepts(text, detect)
                  => runs[i] = <<Strip(NormalizeDocument(text))>>

\* a text of 50 characters or more in which no stage accepts anything has
\* been segmented, and its paragraph breaks were rewritten
C22_Witness ==
    /\ Len(Strip(text)) >= 50
    /\ NoStageAccepts(text, detect)
    /\ runs # <<>>
    /\ runs[1] = <<Strip(NormalizeDocument(text))>>
    /\ runs[1] # <<Strip(NormalizeLineEndings(text))>>

\* the same with a text that the normalizations leave as it is
C22_WitnessUnchangedText ==
    /\ Len(Strip(text)) >= 50
    /\ NoStageAccepts(text, detect)
    /\ runs # <<>>
    /\ runs[1] = <<Strip(text)>>

\* C20: no returned clause holds a markup-like fragment or a run of more
\* than one whitespace character.
C20_ClausesAreClean ==
    \A i \in DOMAIN runs : \A k \in DOMAIN runs[i] :
        ~HasMarkup(runs[i][k]) /\ ~HasSpaceRun(runs[i][k])

-----------------------------------------------------------------------------
(* risk_engine.py: its own cleaners and the scorer analyze_risk *)

\* the class [\u0900-\u097F\s0-9] of risk_engine.clean_hindi
EngineKeepHindi(c) == IsDevanagari(c) \/ IsSpace(c) \/ c \in 48..57

\* the class [a-z0-9\s] of risk_engine.clean_english
EngineKeepEnglish(c) == c \in (97..122) \cup (48..57) \/ IsSpace(c)

risk_engine_clean_hindi(t) ==
    Strip(CollapseSpaces(ReplaceOutside(Lower(t), EngineKeepHindi)))

risk_engine_clean_english(t) ==
    Strip(CollapseSpaces(ReplaceOutside(Lower(t), EngineKeepEnglish)))

is_hindi(t) == \E k \in 1..Len(t) : IsDevanagari(t[k])

risk_engine_normalize_text(t) ==
    IF Len(t) = 0 THEN <<>>
    ELSE IF is_hindi(t) THEN risk_engine_clean_hindi(t)
    ELSE risk_engine_clean_english(t)

MinClauseLen == 30

EngineHighCut == 6

EngineMediumCut == 3

\* the if-blocks of analyze_risk in the order of the code: the block adds
\* weight and appends reason when every phrase of all, and one phrase of
\* any unless any is empty, stands in the cleaned clause (hi: clean_hindi,
\* en: clean_english)
EngineRules == <<
    [hay |-> "hi", all |-> <<<<2309, 2360, 2368, 2350, 2367, 2340>> (* "असीमित" *), <<2342, 2366, 2351, 2367, 2340, 2381, 2357>> (* "दायित्व" *)>>, any |-> <<>>,
     weight |-> 4, reason |-> <<2309, 2360, 2368, 2350, 2367, 2340, 32, 2342, 2366, 2351, 2367, 2340, 2381, 2357>> (* "असीमित दायित्व" *)],
    [hay |-> "hi", all |-> <<<<2325, 2381, 2359, 2340, 2367, 2346, 2370, 2352, 2381, 2340, 2367>> (* "क्षतिपूर्ति" *)>>, any |-> <<>>,
     weight |-> 4, reason |-> <<2346, 2370, 2352, 2381, 2339, 32, 2325, 2381, 2359, 2340, 2367, 2346, 2370, 2352, 2381, 2340, 2367>> (* "पूर्ण क्षतिपूर्ति" *)],
    [hay |-> "hi", all |-> <<<<2319, 2325, 2340, 2352, 2347, 2366>> (* "एकतरफा" *)>>, any |-> <<<<2348, 2367, 2344, 2366>> (* "बिना" *), <<2360, 2370, 2330, 2344, 2366>> (* "सूचना" *)>>,
     weight |-> 4, reason |-> <<2319, 2325, 2340, 2352, 2347, 2366, 32, 2360, 2350, 2366, 2346, 2381, 2340, 2367>> (* "एकतरफा समाप्ति" *)],
    [hay |-> "hi", all |-> <<<<2349, 2369, 2327, 2340, 2366, 2344>> (* "भुगतान" *)>>, any |-> <<<<2352, 2379, 2325>> (* "रोक" *), <<2309, 2360, 2381, 2357, 2368, 2325, 2371, 2340>> (* "अस्वीकृत" *)>>,
     weight |-> 4, reason |-> <<2349, 2369, 2327, 2340, 2366, 2344, 32, 2352, 2379, 2325, 2366, 32, 2332, 2366, 2344, 2366>> (* "भुगतान रोका जाना" *)],
    [hay |-> "hi", all |-> <<<<2342, 2366, 2357, 2366>> (* "दावा" *)>>, any |-> <<<<2346, 2352, 2367, 2340, 2381, 2351, 2366, 2327>> (* "परित्याग" *), <<2344, 2361, 2368, 2306>> (* "नहीं" *)>>,
     weight |-> 4, reason |-> <<2349, 2357, 2367, 2359, 2381, 2351, 32, 2325, 2375, 32, 2342, 2366, 2357, 2379, 2306, 32, 2325, 2366, 32, 2346, 2352, 2367, 2340, 2381, 2351, 2366, 2327>> (* "भविष्य के दावों का परित्याग" *)],
    [hay |-> "en", all |-> <<<<117, 110, 108, 105, 109, 105, 116, 101, 100, 32, 108, 105, 97, 98, 105, 108, 105, 116, 121>> (* "unlimited liability" *)>>, any |-> <<>>,
     weight |-> 4, reason |-> <<85, 110, 108, 105, 109, 105, 116, 101, 100, 32, 108, 105, 97, 98, 105, 108, 105, 116, 121>> (* "Unlimited liability" *)],
    [hay |-> "en", all |-> <<<<105, 110, 100, 101, 109, 110, 105, 102, 121>> (* "indemnify" *)>>, any |-> <<>>,
     weight |-> 4, reason |-> <<66, 114, 111, 97, 100, 32, 105, 110, 100, 101, 109, 110, 105, 116, 121, 32, 111, 98, 108, 105, 103, 97, 116, 105, 111, 110>> (* "Broad indemnity obligation" *)],
    [hay |-> "en", all |-> <<<<116, 101, 114, 109, 105, 110, 97, 116, 101, 32, 97, 116, 32, 97, 110, 121, 32, 116, 105, 109, 101>> (* "terminate at any time" *)>>, any |-> <<>>,
     weight |-> 4, reason |-> <<85, 110, 105, 108, 97, 116, 101, 114, 97, 108, 32, 116, 101, 114, 109, 105, 110, 97, 116, 105, 111, 110>> (* "Unilateral termination" *)],
    [hay |-> "en", all |-> <<<<119, 105, 116, 104, 111, 117, 116, 32, 110, 111, 116, 105, 99, 101>> (* "without notice" *)>>, any |-> <<>>,
     weight |-> 3, reason |-> <<84, 101, 114, 109, 105, 110, 97, 116, 105, 111, 110, 32, 119, 105, 116, 104, 111, 117, 116, 32, 110, 111, 116, 105, 99, 101>> (* "Termination without notice" *)],
    [hay |-> "en", all |-> <<<<112, 101, 110, 97, 108, 116, 121>> (* "penalty" *), <<98, 114, 101, 97, 99, 104>> (* "breach" *)>>, any |-> <<>>,
     weight |-> 3, reason |-> <<80, 101, 110, 97, 108, 116, 121, 32, 111, 110, 32, 98, 114, 101, 97, 99, 104>> (* "Penalty on breach" *)],
    [hay |-> "hi", all |-> <<<<2327, 2379, 2346, 2344, 2368, 2351>> (* "गोपनीय" *)>>, any |-> <<>>,
     weight |-> 2, reason |-> <<2327, 2379, 2346, 2344, 2368, 2351, 2340, 2366, 32, 2342, 2366, 2351, 2367, 2340, 2381, 2357>> (* "गोपनीयता दायित्व" *)],
    [hay |-> "en", all |-> <<<<99, 111, 110, 102, 105, 100, 101, 110, 116, 105, 97, 108>> (* "confidential" *)>>, any |-> <<>>,
     weight |-> 2, reason |-> <<67, 111, 110, 102, 105, 100, 101, 110, 116, 105, 97, 108, 105, 116, 121, 32, 111, 98, 108, 105, 103, 97, 116, 105, 111, 110>> (* "Confidentiality obligation" *)],
    [hay |-> "hi", all |-> <<<<2357, 2367, 2357, 2366, 2342>> (* "विवाद" *)>>, any |-> <<>>,
     weight |-> 2, reason |-> <<2357, 2367, 2357, 2366, 2342, 32, 2360, 2350, 2366, 2343, 2366, 2344, 32, 2325, 2381, 2354, 2377, 2332>> (* "विवाद समाधान क्लॉज" *)],
    [hay |-> "en", all |-> <<<<100, 105, 115, 112, 117, 116, 101>> (* "dispute" *)>>, any |-> <<>>,
     weight |-> 2, reason |-> <<68, 105, 115, 112, 117, 116, 101, 32, 114, 101, 115, 111, 108, 117, 116, 105, 111, 110, 32, 99, 108, 97, 117, 115, 101>> (* "Dispute resolution clause" *)]
    >>

\* the condition of one if-block
EngineRuleApplies(rule, clean_hi, clean_en) ==
    LET hay == IF rule.hay = "hi" THEN clean_hi ELSE clean_en
    IN  /\ \A k \in 1..Len(rule.all) : Contains(hay, rule.all[k])
        /\ rule.any # <<>> => \E k \in 1..Len(rule.any) : Contains(hay, rule.any[k])

\* risk_score and reasons after the if-blocks k..Len(EngineRules)
RECURSIVE EngineScan(_, _, _, _)
EngineScan(k, clean_hi, clean_en, acc) ==
    IF k > Len(EngineRules) THEN acc
    ELSE EngineScan(k + 1, clean_hi, clean_en,
            IF EngineRuleApplies(EngineRules[k], clean_hi, clean_en)
            THEN [score |-> acc.score + EngineRules[k].weight,
                  reasons |-> Append(acc.reasons, EngineRules[k].reason)]
            ELSE acc)

ExplainShort == <<2351, 2361, 32, 2325, 2375, 2357, 2354, 32, 2358, 2368, 2352, 2381, 2359, 2325, 32, 2351, 2366, 32, 2309, 2343, 2370, 2352, 2366, 32, 2325, 2381, 2354, 2377, 2332, 32, 2361, 2376, 2404>> (* "यह केवल शीर्षक या अधूरा क्लॉज है।" *)

ExplainHighPrefix == <<2313, 2330, 2381, 2330, 32, 2332, 2379, 2326, 2367, 2350, 58, 32>> (* "उच्च जोखिम: " *)

ExplainMedium == <<2350, 2343, 2381, 2351, 2350, 32, 2332, 2379, 2326, 2367, 2350, 58, 32, 2360, 2350, 2368, 2325, 2381, 2359, 2366, 32, 2310, 2357, 2358, 2381, 2351, 2325, 2404>> (* "मध्यम जोखिम: समीक्षा आवश्यक।" *)

ExplainLow == <<2325, 2379, 2312, 32, 2327, 2306, 2349, 2368, 2352, 32, 2325, 2366, 2344, 2370, 2344, 2368, 32, 2332, 2379, 2326, 2367, 2350, 32, 2344, 2361, 2368, 2306, 32, 2350, 2367, 2354, 2366, 2404>> (* "कोई गंभीर कानूनी जोखिम नहीं मिला।" *)

\* the score that analyze_risk reaches before its final decision
EngineScore(cl) ==
    EngineScan(1, risk_engine_clean_hindi(cl), risk_engine_clean_english(cl),
               [score |-> 0, reasons |-> <<>>])

\* the dict that analyze_risk returns
analyze_risk(cl) ==
    IF Len(cl) = 0 \/ Len(Strip(cl)) < MinClauseLen
    THEN [risk_level |-> "Low", explanation |-> ExplainShort]
    ELSE LET acc == EngineScore(cl)
         IN  IF acc.score >= EngineHighCut
             THEN [risk_level |-> "High",
                   explanation |-> ExplainHighPrefix \o JoinReasons(acc.reasons)]
             ELSE IF acc.score >= EngineMediumCut
             THEN [risk_level |-> "Medium", explanation |-> ExplainMedium]
             ELSE [risk_level |-> "Low", explanation |-> ExplainLow]

-----------------------------------------------------------------------------
(* The helper functions as a state machine: a text is chosen, then one of   *)
(* the functions is called on it, and normalize_text may be called once     *)
(* more on the text it returned.  outcome keeps the latest call: the        *)
(* function, its argument, what the classifier did, whether an exception    *)
(* left the call, and the value returned.                                   *)

BlankText == <<32, 32, 10, 32>> (* "  \n " *)

\* a text of more than 80 characters with a numbered item and the word clause
NumberedClauseText ==
    <<49, 46, 32, 84, 104, 105, 115, 32, 99, 108, 97, 117, 115, 101, 32, 115, 101, 116, 115, 32, 111, 117, 116, 32, 104, 111, 119, 32, 116, 104, 101, 32, 98, 117, 121, 101, 114, 32, 97, 110, 100, 32, 116, 104, 101, 32, 115, 101, 108, 108, 101, 114, 32, 119, 105, 108, 108, 32, 119, 111, 114, 107, 32, 116, 111, 103, 101, 116, 104, 101, 114, 32, 111, 110, 32, 101, 118, 101, 114, 121, 32, 111, 114, 100, 101, 114, 32, 112, 108, 97, 99, 101, 100>> (* "1. This clause sets out how the buyer and the seller will work together on every order placed" *)

TerminationText == <<69, 105, 116, 104, 101, 114, 32, 115, 105, 100, 101, 32, 109, 97, 121, 32, 84, 101, 114, 109, 105, 110, 97, 116, 101, 32, 65, 116, 32, 65, 110, 121, 32, 84, 105, 109, 101>> (* "Either side may Terminate At Any Time" *)

JurisdictionText == <<84, 104, 101, 32, 99, 111, 117, 114, 116, 115, 32, 111, 102, 32, 68, 101, 108, 104, 105, 32, 104, 97, 118, 101, 32, 74, 117, 114, 105, 115, 100, 105, 99, 116, 105, 111, 110>> (* "The courts of Delhi have Jurisdiction" *)

HelperInputs ==
    ClauseInputs \cup {BlankText, NumberedClauseText, TerminationText, JurisdictionText}

RiskLabels == {"High", "Medium", "Low"}

InitHelpers ==
    /\ detect \in {"absent", "present"}
    /\ clause \in HelperInputs
    /\ outcome = <<>>
    /\ findings = <<>>
    /\ text = <<>>
    /\ runs = <<>>
    /\ rows = <<>>
    /\ config = <<>>
    /\ db = <<>>
    /\ session = <<>>
    /\ script = <<>>

CallDetectLanguage ==
    /\ outcome = <<>>
    /\ \E ans \in CallAnswers(detect) :
          outcome' = <<[fn |-> "detect_language", arg |-> clause, ans |-> ans,
                        raised |-> detect_languageRaises(clause, detect, ans),
                        out |-> detect_language(clause, detect, ans)]>>
    /\ UNCHANGED <<detect, clause, findings, text, runs, rows,
                 config, db, session, script>>

CallNormalizeText ==
    /\ outcome = <<>>
    /\ \E ans \in CallAnswers(detect) :
          outcome' = <<[fn |-> "normalize_text", arg |-> clause, ans |-> ans,
                        raised |-> normalize_textRaises(clause, detect, ans),
                        out |-> normalize_text(clause, detect, ans),
                        pass |-> 1]>>
    /\ UNCHANGED <<detect, clause, findings, text, runs, rows,
                 config, db, session, script>>

\* normalize_text called on the text that the call before it returned
CallNormalizeTextAgain ==
    /\ outcome # <<>>
    /\ outcome[1].fn = "normalize_text"
    /\ outcome[1].pass = 1
    /\ \E ans \in CallAnswers(detect) :
          outcome' = <<[fn |-> "normalize_text", arg |-> outcome[1].out, ans |-> ans,
                        raised |-> normalize_textRaises(outcome[1].out, detect, ans),
                        out |-> normalize_text(outcome[1].out, detect, ans),
                        pass |-> 2]>>
    /\ UNCHANGED <<detect, clause, findings, text, runs, rows,
                 config, db, session, script>>

CallLooksLikeContract ==
    /\ outcome = <<>>
    /\ \E ans \in CallAnswers(detect) :
          outcome' = <<[fn |-> "looks_like_contract", arg |-> clause, ans |-> ans,
                        raised |-> looks_like_contractRaises(clause, detect, ans),
                        out |-> looks_like_contract(clause, detect, ans)]>>
    /\ UNCHANGED <<detect, clause, findings, text, runs, rows,
                 config, db, session, script>>

\* the function has no call that can raise
CallSuggestAlternatives ==
    /\ outcome = <<>>
    /\ \E risk_label \in RiskLabels :
          outcome' = <<[fn |-> "suggest_alternatives_for_clause", arg |-> clause,
                        label |-> risk_label,
                        raised |-> FALSE,
                        out |-> suggest_alternatives_for_clause(clause, risk_label)]>>
    /\ UNCHANGED <<detect, clause, findings, text, runs, rows,
                 config, db, session, script>>

CallAnalyzeClauseRisk ==
    /\ outcome = <<>>
    /\ \E ans \in CallAnswers(detect) :
          outcome' = <<[fn |-> "analyze_clause_risk", arg |-> clause, ans |-> ans,
                        raised |-> analyze_clause_riskRaises(clause, detect, ans),
                        out |-> analyze_clause_risk(clause, detect, ans)]>>
    /\ UNCHANGED <<detect, clause, findings, text, runs, rows,
                 config, db, session, script>>

CallExtractClauses ==
    /\ outcome = <<>>
    /\ \E oracle \in Oracles(clause, detect) :
          outcome' = <<[fn |-> "extract_clauses", arg |-> clause, oracle |-> oracle,
                        raised |-> extract_clausesRaises(clause, detect, oracle),
                        out |-> extract_clauses(clause, detect, oracle)]>>
    /\ UNCHANGED <<detect, clause, findings, text, runs, rows,
                 config, db, session, script>>

NextHelpers ==
    \/ CallDetectLanguage
    \/ CallNormalizeText
    \/ CallNormalizeTextAgain
    \/ CallLooksLikeContract
    \/ CallSuggestAlternatives
    \/ CallAnalyzeClauseRisk
    \/ CallExtractClauses

SpecHelpers == InitHelpers /\ [][NextHelpers]_vars

-----------------------------------------------------------------------------
(* Properties of the helper functions *)

\* a Python str: a sequence of code points
IsStr(v) == DOMAIN v = 1..Len(v) /\ \A k \in 1..Len(v) : v[k] \in 0..1114111

\* the word w stands in t between two word boundaries
HasWord(t, w) ==
    \E j \in 1..Len(t) :
        MatchAt(t, j, w) /\ WordBoundary(t, j) /\ WordBoundary(t, j + Len(w))

\* C15: normalize_text called on a text that normalize_text returned gives
\* that text back, whatever the classifier did in either call.
C15_NormalizeIsIdempotent ==
    \A i \in DOMAIN outcome :
        (outcome[i].fn = "normalize_text" /\ outcome[i].pass = 2)
            => outcome[i].out = outcome[i].arg

\* C16: detect_language raises nothing and returns no None; it returns
\* "unknown" for an empty or blank text; for any other text, when the
\* classifier is absent or raises, it returns "hindi" if the text holds a
\* code point of U+0900..U+097F and "english" otherwise.
C16_DetectLanguageFallsBack ==
    \A i \in DOMAIN outcome :
        LET o == outcome[i]
        IN  o.fn = "detect_language" =>
              /\ ~o.raised
              /\ o.out # None
              /\ IsStr(o.out)
              /\ Len(Strip(o.arg)) = 0 => o.out = TagUnknown
              /\ (Len(Strip(o.arg)) > 0 /\ (detect = "absent" \/ o.ans = "raise")) =>
                    o.out = IF \E k \in 1..Len(o.arg) : o.arg[k] \in 2304..2431
                            THEN TagHindi ELSE TagEnglish

\* the classifier raised on a text with Devanagari and "hindi" was returned
C16_Witness ==
    \E i \in DOMAIN outcome :
        /\ outcome[i].fn = "detect_language"
        /\ detect = "present"
        /\ outcome[i].ans = "raise"
        /\ outcome[i].out = TagHindi
        /\ ~outcome[i].raised

\* a blank text, and the classifier being absent for a text without Devanagari
C16_WitnessBlank ==
    \E i \in DOMAIN outcome :
        /\ outcome[i].fn = "detect_language"
        /\ outcome[i].arg = BlankText
        /\ outcome[i].out = TagUnknown

C16_WitnessAbsent ==
    \E i \in DOMAIN outcome :
        /\ outcome[i].fn = "detect_language"
        /\ detect = "absent"
        /\ outcome[i].out = TagEnglish

\* the plausibility score as C17 words it: one for each keyword of the set of
\* the language found in the text, one for digits followed by a dot, one for
\* the word clause or section, one for the word party or parties
ClaimedContractScore(t, lang) ==
    LET low == Lower(t)
        keywords == IF StartsWith(lang, CodeHi) THEN CONTRACT_KEYWORDS_HI
                    ELSE CONTRACT_KEYWORDS_EN
    IN  Len(Matched(keywords, low))
        + (IF \E j \in 1..Len(t) : IsDigit(t[j]) /\ At(t, j + 1) = 46 THEN 1 ELSE 0)
        + (IF HasWord(low, <<99, 108, 97, 117, 115, 101>> (* "clause" *)) \/ HasWord(low, <<115, 101, 99, 116, 105, 111, 110>> (* "section" *)) THEN 1 ELSE 0)
        + (IF HasWord(low, <<112, 97, 114, 116, 121>> (* "party" *)) \/ HasWord(low, <<112, 97, 114, 116, 105, 101, 115>> (* "parties" *)) THEN 1 ELSE 0)

\* C17: looks_like_contract returns true exactly when the trimmed text has 80
\* characters or more and the plausibility score is 2 or more.
C17_ContractPlausibility ==
    \A i \in DOMAIN outcome :
        LET o == outcome[i]
        IN  o.fn = "looks_like_contract" =>
              (o.out <=> (/\ Len(Strip(o.arg)) >= 80
                          /\ ClaimedContractScore(o.arg,
                                detect_language(o.arg, detect, o.ans)) >= 2))

\* C18: the suggestion is looked up from the label and the phrase in the
\* clause: High with an indemnity or hold-harmless phrase, High with the
\* unlimited-liability phrase and no indemnity phrase, High with the
\* terminate-at-any-time phrase and neither of the former, Medium with the
\* jurisdiction phrase; in every other case it is None, never an empty string.
C18_SuggestionLookup ==
    \A i \in DOMAIN outcome :
        LET o == outcome[i]
            low == Lower(o.arg)
            indemnity == \/ Contains(low, <<105, 110, 100, 101, 109, 110, 105, 102>> (* "indemnif" *))
                         \/ Contains(low, <<104, 111, 108, 100, 32, 104, 97, 114, 109, 108, 101, 115, 115>> (* "hold harmless" *))
                         \/ Contains(o.arg, <<2325, 2381, 2359, 2340, 2367, 2346, 2370, 2352, 2381, 2340, 2367>> (* "क्षतिपूर्ति" *))
            unlimited == \/ Contains(low, <<117, 110, 108, 105, 109, 105, 116, 101, 100, 32, 108, 105, 97, 98, 105, 108, 105, 116, 121>> (* "unlimited liability" *))
                         \/ Contains(o.arg, <<2309, 2360, 2368, 2350, 2367, 2340, 32, 2342, 2366, 2351, 2367, 2340, 2381, 2357>> (* "असीमित दायित्व" *))
            termination == \/ Contains(low, <<116, 101, 114, 109, 105, 110, 97, 116, 101, 32, 97, 116, 32, 97, 110, 121, 32, 116, 105, 109, 101>> (* "terminate at any time" *))
                           \/ Contains(o.arg, <<2319, 2325, 2340, 2352, 2347, 2366, 32, 2360, 2350, 2366, 2346, 2381, 2340, 2367>> (* "एकतरफा समाप्ति" *))
            jurisdiction == \/ Contains(low, <<106, 117, 114, 105, 115, 100, 105, 99, 116, 105, 111, 110>> (* "jurisdiction" *))
                            \/ Contains(o.arg, <<2344, 2381, 2351, 2366, 2351, 2366, 2354, 2351>> (* "न्यायालय" *))
        IN  o.fn = "suggest_alternatives_for_clause" =>
              /\ o.out # <<>>
              /\ (o.label = "High" /\ indemnity) => o.out = SuggestLimitIndemnity
              /\ (o.label = "High" /\ unlimited /\ ~indemnity) => o.out = SuggestLiabilityCap
              /\ (o.label = "High" /\ termination /\ ~indemnity /\ ~unlimited) =>
                    o.out = SuggestNoticeAndCure
              /\ (o.label = "Medium" /\ jurisdiction) => o.out = SuggestArbitration
              /\ (\/ o.label = "Low"
                  \/ o.label = "High" /\ ~indemnity /\ ~unlimited /\ ~termination
                  \/ o.label = "Medium" /\ ~jurisdiction) => o.out = None

\* a High clause with the unlimited-liability phrase alone got the liability
\* cap suggestion
C18_Witness ==
    \E i \in DOMAIN outcome :
        /\ outcome[i].fn = "suggest_alternatives_for_clause"
        /\ outcome[i].label = "High"
        /\ Contains(Lower(outcome[i].arg), <<117, 110, 108, 105, 109, 105, 116, 101, 100, 32, 108, 105, 97, 98, 105, 108, 105, 116, 121>> (* "unlimited liability" *))
        /\ outcome[i].out = SuggestLiabilityCap

\* the other rows of the lookup
C18_WitnessIndemnity ==
    \E i \in DOMAIN outcome :
        /\ outcome[i].fn = "suggest_alternatives_for_clause"
        /\ outcome[i].out = SuggestLimitIndemnity

C18_WitnessTermination ==
    \E i \in DOMAIN outcome :
        /\ outcome[i].fn = "suggest_alternatives_for_clause"
        /\ outcome[i].out = SuggestNoticeAndCure

C18_WitnessJurisdiction ==
    \E i \in DOMAIN outcome :
        /\ outcome[i].fn = "suggest_alternatives_for_clause"
        /\ outcome[i].label = "Medium"
        /\ outcome[i].out = SuggestArbitration

C18_WitnessNone ==
    \E i \in DOMAIN outcome :
        /\ outcome[i].fn = "suggest_alternatives_for_clause"
        /\ outcome[i].label = "Medium"
        /\ Contains(Lower(outcome[i].arg), <<105, 110, 100, 101, 109, 110, 105, 102>> (* "indemnif" *))
        /\ outcome[i].out = None

\* the value of a call is of the type the function returns
ReturnsValue(o) ==
    CASE o.fn = "detect_language" -> IsStr(o.out)
      [] o.fn = "normalize_text" -> IsStr(o.out)
      [] o.fn = "looks_like_contract" -> o.out \in BOOLEAN
      [] o.fn = "suggest_alternatives_for_clause" -> o.out = None \/ IsStr(o.out)
      [] o.fn = "analyze_clause_risk" ->
            /\ o.out.label \in RiskLabels
            /\ IsStr(o.out.reasons)
            /\ o.out.score \in Nat
      [] o.fn = "extract_clauses" ->
            /\ DOMAIN o.out = 1..Len(o.out)
            /\ \A k \in 1..Len(o.out) : IsStr(o.out[k])

\* C19: no exception leaves a call of extract_clauses, analyze_clause_risk,
\* suggest_alternatives_for_clause, looks_like_contract or normalize_text,
\* and each call returns a value, for the empty text and when the classifier
\* raises as well.
C19_HelpersAreTotal ==
    \A i \in DOMAIN outcome : ~outcome[i].raised /\ ReturnsValue(outcome[i])

\* the classifier raised inside a call of analyze_clause_risk, which returned
\* its tuple
C19_Witness ==
    \E i \in DOMAIN outcome :
        /\ outcome[i].fn = "analyze_clause_risk"
        /\ detect = "present"
        /\ outcome[i].ans = "raise"
        /\ Len(outcome[i].arg) > 0
        /\ ~outcome[i].raised
        /\ outcome[i].out.label \in RiskLabels

\* the classifier raised inside a call of extract_clauses, inside a call of
\* looks_like_contract and inside a call of normalize_text
C19_WitnessExtract ==
    \E i \in DOMAIN outcome :
        /\ outcome[i].fn = "extract_clauses"
        /\ \E k \in DOMAIN outcome[i].oracle : outcome[i].oracle[k] = "raise"
        /\ outcome[i].out # <<>>

C19_WitnessContract ==
    \E i \in DOMAIN outcome :
        /\ outcome[i].fn = "looks_like_contract"
        /\ outcome[i].ans = "raise"
        /\ Len(Strip(outcome[i].arg)) >= 80
        /\ outcome[i].out \in BOOLEAN

C19_WitnessNormalize ==
    \E i \in DOMAIN outcome :
        /\ outcome[i].fn = "normalize_text"
        /\ outcome[i].ans = "raise"
        /\ Len(outcome[i].out) > 0

\* each of the five functions has been called on the empty text
C19_WitnessEmptyText ==
    \E i \in DOMAIN outcome :
        /\ outcome[i].arg = <<>>
        /\ outcome[i].fn = "extract_clauses"
        /\ outcome[i].out = <<>>

-----------------------------------------------------------------------------
(* The components side by side: a clause is chosen, then one of the         *)
(* comparisons is made on it and kept in outcome.                           *)

\* a Hindi clause with ASCII digits and Devanagari digits
HindiDigitText == <<2343, 2366, 2352, 2366, 32, 53, 32, 2325, 2375, 32, 2309, 2344, 2369, 2360, 2366, 2352, 32, 51, 48, 32, 2342, 2367, 2344, 44, 32, 2407, 2408, 32, 2350, 2366, 2361>> (* "धारा 5 के अनुसार 30 दिन, १२ माह" *)

\* an English clause with underscores and punctuation
UnderscoreText == <<80, 97, 114, 116, 121, 95, 65, 32, 115, 104, 97, 108, 108, 32, 112, 97, 121, 32, 82, 115, 46, 32, 53, 44, 48, 48, 48, 32, 116, 111, 32, 80, 97, 114, 116, 121, 95, 66>> (* "Party_A shall pay Rs. 5,000 to Party_B" *)

\* a clause whose risk phrases are written with hyphens between the words
SeparatedPhraseClause ==
    <<85, 110, 108, 105, 109, 105, 116, 101, 100, 45, 108, 105, 97, 98, 105, 108, 105, 116, 121, 32, 97, 112, 112, 108, 105, 101, 115, 59, 32, 116, 104, 101, 32, 115, 101, 108, 108, 101, 114, 32, 119, 105, 108, 108, 32, 104, 111, 108, 100, 45, 104, 97, 114, 109, 108, 101, 115, 115, 32, 116, 104, 101, 32, 98, 117, 121, 101, 114>> (* "Unlimited-liability applies; the seller will hold-harmless the buyer" *)

ComponentInputs ==
    HelperInputs \cup {HindiDigitText, UnderscoreText, SeparatedPhraseClause}

Modules == {"language_detector", "risk_engine"}

InitComponents ==
    /\ detect \in {"absent", "present"}
    /\ clause \in ComponentInputs
    /\ outcome = <<>>
    /\ findings = <<>>
    /\ text = <<>>
    /\ runs = <<>>
    /\ rows = <<>>
    /\ config = <<>>
    /\ db = <<>>
    /\ session = <<>>
    /\ script = <<>>

\* clean_hindi(clause) of either module
CallCleanHindi ==
    /\ outcome = <<>>
    /\ \E mod \in Modules :
          outcome' = <<[fn |-> "clean_hindi", mod |-> mod, arg |-> clause,
                        out |-> IF mod = "risk_engine"
                                THEN risk_engine_clean_hindi(clause)
                                ELSE clean_hindi(clause)]>>
    /\ UNCHANGED <<detect, clause, findings, text, runs, rows,
                 config, db, session, script>>

\* clean_english(clause) of either module
CallCleanEnglish ==
    /\ outcome = <<>>
    /\ \E mod \in Modules :
          outcome' = <<[fn |-> "clean_english", mod |-> mod, arg |-> clause,
                        out |-> IF mod = "risk_engine"
                                THEN risk_engine_clean_english(clause)
                                ELSE clean_english(clause)]>>
    /\ UNCHANGED <<detect, clause, findings, text, runs, rows,
                 config, db, session, script>>

\* the clause scored by utils.analyze_clause_risk and by
\* risk_engine.analyze_risk
CallBothScorers ==
    /\ outcome = <<>>
    /\ \E ans \in CallAnswers(detect) :
          outcome' = <<[fn |-> "scorers", arg |-> clause, ans |-> ans,
                        utils |-> analyze_clause_risk(clause, detect, ans),
                        engine |-> analyze_risk(clause)]>>
    /\ UNCHANGED <<detect, clause, findings, text, runs, rows,
                 config, db, session, script>>

\* lines 234-235 of app.py: the clause is scored, then the suggestion is
\* looked up with the label of the finding (the reasons are passed and not
\* read)
CallAnalyzeAndSuggest ==
    /\ outcome = <<>>
    /\ \E ans \in CallAnswers(detect) :
          LET f == analyze_clause_risk(clause, detect, ans)
          IN  outcome' = <<[fn |-> "review", arg |-> clause, ans |-> ans,
                            finding |-> f,
                            suggestion |-> suggest_alternatives_for_clause(clause, f.label)]>>
    /\ UNCHANGED <<detect, clause, findings, text, runs, rows,
                 config, db, session, script>>

\* normalize_text: lang.startswith("hindi") selects clean_hindi
NormalizeAppliesHindi(lang) == StartsWith(lang, TagHindi)

\* looks_like_contract: lang.startswith("hi") selects CONTRACT_KEYWORDS_HI
ContractUsesHindiKeywords(lang) == StartsWith(lang, CodeHi)

\* app.py: lang.lower().startswith("hi") sends the text to
\* normalize_to_english
PipelineTreatsAsHindi(lang) == StartsWith(Lower(lang), CodeHi)

\* detect_language(clause) and what each of its three readers makes of the
\* tag it returned
CallLanguageReaders ==
    /\ outcome = <<>>
    /\ \E ans \in CallAnswers(detect) :
          LET lang == detect_language(clause, detect, ans)
          IN  outcome' = <<[fn |-> "language", arg |-> clause, ans |-> ans,
                            lang |-> lang,
                            normalized |-> normalize_text(clause, detect, ans),
                            normalize_hindi |-> NormalizeAppliesHindi(lang),
                            contract_hindi |-> ContractUsesHindiKeywords(lang),
                            pipeline_hindi |-> PipelineTreatsAsHindi(lang)]>>
    /\ UNCHANGED <<detect, clause, findings, text, runs, rows,
                 config, db, session, script>>

NextComponents ==
    \/ CallCleanHindi
    \/ CallCleanEnglish
    \/ CallBothScorers
    \/ CallAnalyzeAndSuggest
    \/ CallLanguageReaders

SpecComponents == InitComponents /\ [][NextComponents]_vars

-----------------------------------------------------------------------------
(* Properties of the components *)

\* a character that Hindi normalization is said to keep
ClaimedKeepHindi(c) == IsDevanagari(c) \/ IsSpace(c) \/ IsDigit(c)

\* a character that English normalization is said to keep: alphanumeric
\* (a word character other than the underscore) or whitespace
ClaimedKeepEnglish(c) == (IsWordChar(c) /\ c # 95) \/ IsSpace(c)

\* C23: cleaning a Hindi text keeps every Devanagari character, whitespace
\* and digit and puts a space for every other character; cleaning an English
\* text lowercases it and puts a space for every non-alphanumeric
\* character; both collapse whitespace runs to one space and trim the ends.
C23_CleaningByScript ==
    \A i \in DOMAIN outcome :
        LET o == outcome[i]
        IN  /\ (o.fn = "clean_hindi" /\ is_hindi(o.arg)) =>
                  o.out = Strip(CollapseSpaces(ReplaceOutside(o.arg, ClaimedKeepHindi)))
            /\ (o.fn = "clean_english" /\ ~is_hindi(o.arg)) =>
                  o.out = Strip(CollapseSpaces(
                              ReplaceOutside(Lower(o.arg), ClaimedKeepEnglish)))

\* the tier of a score under the cut-offs High at 5 and Medium at 2
ClaimedTier(score) ==
    IF score >= 5 THEN "High" ELSE IF score >= 2 THEN "Medium" ELSE "Low"

\* C24: risk_engine.analyze_risk and utils.analyze_clause_risk give a clause
\* the same tier, and each gives the tier of its score under the cut-offs
\* High at 5 and Medium at 2.
C24_ScorersAgree ==
    \A i \in DOMAIN outcome :
        LET o == outcome[i]
        IN  o.fn = "scorers" =>
              /\ o.engine.risk_level = o.utils.label
              /\ o.utils.label = ClaimedTier(o.utils.score)
              /\ Len(Strip(o.arg)) >= MinClauseLen =>
                    o.engine.risk_level = ClaimedTier(EngineScore(o.arg).score)

\* the reasons that have a suggestion for a High clause
SuggestionReasons == <<
    <<105, 110, 100, 101, 109, 110, 105, 102, 121>> (* "indemnify" *),
    <<104, 111, 108, 100, 32, 104, 97, 114, 109, 108, 101, 115, 115>> (* "hold harmless" *),
    <<117, 110, 108, 105, 109, 105, 116, 101, 100, 32, 108, 105, 97, 98, 105, 108, 105, 116, 121>> (* "unlimited liability" *),
    <<116, 101, 114, 109, 105, 110, 97, 116, 101, 32, 97, 116, 32, 97, 110, 121, 32, 116, 105, 109, 101>> (* "terminate at any time" *),
    <<2309, 2360, 2368, 2350, 2367, 2340, 32, 2342, 2366, 2351, 2367, 2340, 2381, 2357>> (* "असीमित दायित्व" *),
    <<2319, 2325, 2340, 2352, 2347, 2366, 32, 2360, 2350, 2366, 2346, 2381, 2340, 2367>> (* "एकतरफा समाप्ति" *)
    >>

\* the phrase is one of the reasons joined in csv
ReasonListed(csv, phrase) ==
    \/ csv = phrase
    \/ StartsWith(csv, phrase \o ReasonSeparator)
    \/ Contains(csv, ReasonSeparator \o phrase \o ReasonSeparator)
    \/ /\ Len(csv) > Len(phrase) + Len(ReasonSeparator)
       /\ SubSeq(csv, Len(csv) - Len(phrase) - Len(ReasonSeparator) + 1, Len(csv))
             = ReasonSeparator \o phrase

\* C25: a clause that analyze_clause_risk labels High with one of the
\* suggestion reasons among its reasons gets a suggestion, not None, from
\* suggest_alternatives_for_clause called with the clause and the label.
C25_SuggestionFollowsFinding ==
    \A i \in DOMAIN outcome :
        LET o == outcome[i]
        IN  (/\ o.fn = "review"
             /\ o.finding.label = "High"
             /\ \E k \in 1..Len(SuggestionReasons) :
                    ReasonListed(o.finding.reasons, SuggestionReasons[k]))
                => o.suggestion # None

\* C26: whatever tag detect_language returns, normalize_text applies the
\* Hindi cleaning exactly when looks_like_contract takes the Hindi keyword
\* set and exactly when the pipeline treats the document as Hindi.
C26_LanguageReadersAgree ==
    \A i \in DOMAIN outcome :
        LET o == outcome[i]
        IN  o.fn = "language" =>
              /\ o.normalize_hindi <=> o.contract_hindi
              /\ o.normalize_hindi <=> o.pipeline_hindi
              /\ o.normalized = IF o.pipeline_hindi THEN clean_hindi(o.arg)
                                 ELSE clean_english(o.arg)

-----------------------------------------------------------------------------
(* db.py: the tables analyses, clauses and embeddings.  A row of analyses   *)
(* is kept as its id and owner_id, a row of clauses or embeddings as its    *)
(* analysis_id and clause_number; every function call is one transaction.   *)

\* the most ids that analyses hands out before the counter is reset
MaxAnalyses == 2

\* the clause numbers of the rows of an analysed contract
ClauseNumbers == {1}

\* the id of a row of users
Users == {1, 2}

EmptyDb == [analyses |-> {}, clauses |-> {}, embeddings |-> {}, seq |-> 0]

\* the ids of the rows of analyses
AnalysisIds(d) == {a.id : a \in d.analyses}

\* save_analysis: one INSERT into analyses, whose id is the next value of
\* the counter, one INSERT into clauses for each clause, then the commit
save_analysis(d, owner_id) ==
    LET analysis_id == d.seq + 1
    IN  [analyses |-> d.analyses \cup {[id |-> analysis_id, owner_id |-> owner_id]},
         clauses |-> d.clauses \cup {[analysis_id |-> analysis_id, clause_number |-> n] :
                                        n \in ClauseNumbers},
         embeddings |-> d.embeddings,
         seq |-> analysis_id]

\* list_analyses: the rows of the owner when owner_id is truthy, else every
\* row
list_analyses(d, owner_id) ==
    IF owner_id # 0
    THEN {a.id : a \in {b \in d.analyses : b.owner_id = owner_id}}
    ELSE AnalysisIds(d)

\* The FOREIGN KEY of embeddings is enforced by MySQL; SQLite enforces it
\* only after PRAGMA foreign_keys = ON, which get_conn does not issue.
save_embeddingRaises(d, backend, analysis_id) ==
    backend = "mysql" /\ analysis_id \notin AnalysisIds(d)

\* save_embedding: one INSERT into embeddings and the commit
save_embedding(d, backend, analysis_id, clause_number) ==
    IF save_embeddingRaises(d, backend, analysis_id) THEN d
    ELSE [d EXCEPT !.embeddings =
              @ \cup {[analysis_id |-> analysis_id, clause_number |-> clause_number]}]

\* the three DELETE statements of delete_analysis, committed
DeleteRows(d, analysis_id) ==
    [d EXCEPT !.embeddings = {e \in @ : e.analysis_id # analysis_id},
              !.clauses = {c \in @ : c.analysis_id # analysis_id},
              !.analyses = {a \in @ : a.id # analysis_id}]

\* What a call of delete_analysis may meet: no error; an error in one of
\* the DELETE statements or in the commit, caught and rolled back; on MySQL
\* an error in the statements after the commit (SELECT COUNT, ALTER TABLE).
DeleteFailures(backend) ==
    IF backend = "mysql" THEN {"none", "statement", "after_commit"}
    ELSE {"none", "statement"}

\* the tables after delete_analysis(analysis_id); on MySQL the counter goes
\* back to its start when the table is left empty
delete_analysis(d, backend, analysis_id, failure) ==
    IF failure = "statement" THEN d
    ELSE LET after == DeleteRows(d, analysis_id)
         IN  IF backend = "mysql" /\ failure = "none" /\ after.analyses = {}
             THEN [after EXCEPT !.seq = 0]
             ELSE after

\* delete_analysis re-raises what it caught
delete_analysisRaises(failure) == failure # "none"

-----------------------------------------------------------------------------
(* app.py: the session state and the handlers of the buttons.  Every        *)
(* handler below stands after the st.stop() of lines 188-190 and needs a    *)
(* contract to be uploaded, which is taken as given.  The button "Delete    *)
(* ALL YOUR Analyses" is left out: its confirmation button sits inside the  *)
(* if of the first button and is gone in the run that its click starts.     *)

Sessions == {"tab1", "tab2"}

\* the value of the key analyses_refresh, which only names the buttons
Stamp == "stamp"

\* the keys that logout leaves in the session state
KeepOnLogout == {"user", "analyses_refresh"}

\* d[k] = v, and d.pop(k, None)
Put(d, k, v) == [x \in DOMAIN d \cup {k} |-> IF x = k THEN v ELSE d[x]]

Pop(d, k) == [x \in DOMAIN d \ {k} |-> d[x]]

\* the user row of the session state, of which the id is read
UserRow(u) == <<u>>

LoggedIn(s) == session[s]["user"] # None

UserId(s) == session[s]["user"][1]

\* logout() without the loop that deletes the other keys
logoutKeepsKeys(d) == Put(d, "user", None)

\* logout(): user becomes None and every key but user and analyses_refresh
\* is deleted
logout(d) ==
    [k \in DOMAIN d \cap KeepOnLogout |-> IF k = "user" THEN None ELSE d[k]]

\* the main content is run: the user is logged in and no run of the session
\* is under way
MainContent(s) == LoggedIn(s) /\ script[s] = <<>>

\* the buttons of the main content are on the page: a run has come past
\* lines 446-447
ButtonsShown(s) == MainContent(s) /\ "analyses_refresh" \in DOMAIN session[s]

\* the list the sidebar shows: the cached list, or else a fresh one
ShownAnalyses(s) ==
    IF "current_analyses" \in DOMAIN session[s]
    THEN session[s]["current_analyses"]
    ELSE list_analyses(db, UserId(s))

InitApp ==
    /\ config \in [backend : {"sqlite", "mysql"}, embed_model : {"absent", "present"}]
    /\ db = EmptyDb
    /\ session = [s \in Sessions |-> [k \in {"user"} |-> None]]
    /\ script = [s \in Sessions |-> <<>>]
    /\ outcome = <<>>
    /\ detect = "absent"
    /\ clause = <<>>
    /\ findings = <<>>
    /\ text = <<>>
    /\ runs = <<>>
    /\ rows = <<>>

\* lines 129-139: the Login button with the credentials of user u
Login(s, u) ==
    /\ ~LoggedIn(s)
    /\ session' = [session EXCEPT ![s] = Put(@, "user", UserRow(u))]
    /\ outcome' = <<>>
    /\ UNCHANGED <<config, db, script, detect, clause, findings, text, runs, rows>>

\* lines 170-171: the Logout button
Logout(s) ==
    /\ MainContent(s)
    /\ session' = [session EXCEPT ![s] = logout(@)]
    /\ outcome' = <<>>
    /\ UNCHANGED <<config, db, script, detect, clause, findings, text, runs, rows>>

\* a run of the script down to lines 446-447 with no button pressed
ViewContract(s) ==
    /\ MainContent(s)
    /\ "analyses_refresh" \notin DOMAIN session[s]
    /\ session' = [session EXCEPT ![s] = Put(@, "analyses_refresh", Stamp)]
    /\ outcome' = <<>>
    /\ UNCHANGED <<config, db, script, detect, clause, findings, text, runs, rows>>

\* lines 426-428: the end of the save handler
SaveDone(d) == Put(Pop(d, "current_analyses"), "analyses_refresh", Stamp)

\* lines 397-428: the Save button; with an embedding model the handler
\* goes on to save_embedding, one call for each clause
SaveAnalysis(s) ==
    /\ ButtonsShown(s)
    /\ db.seq < MaxAnalyses
    /\ db' = save_analysis(db, UserId(s))
    /\ IF config.embed_model = "present"
       THEN /\ script' = [script EXCEPT ![s] =
                            <<[analysis_id |-> db.seq + 1, todo |-> ClauseNumbers]>>]
            /\ UNCHANGED session
       ELSE /\ session' = [session EXCEPT ![s] = SaveDone(@)]
            /\ UNCHANGED script
    /\ outcome' = <<>>
    /\ UNCHANGED <<config, detect, clause, findings, text, runs, rows>>

\* lines 411-412: the next save_embedding of the save handler; an exception
\* ends the run, the last call is followed by lines 414-428
SaveEmbedding(s) ==
    /\ script[s] # <<>>
    /\ LET job == script[s][1]
           n == CHOOSE k \in job.todo : \A m \in job.todo : k <= m
       IN  /\ db' = save_embedding(db, config.backend, job.analysis_id, n)
           /\ IF save_embeddingRaises(db, config.backend, job.analysis_id)
              THEN /\ script' = [script EXCEPT ![s] = <<>>]
                   /\ UNCHANGED session
              ELSE IF job.todo = {n}
              THEN /\ script' = [script EXCEPT ![s] = <<>>]
                   /\ session' = [session EXCEPT ![s] = SaveDone(@)]
              ELSE /\ script' = [script EXCEPT ![s] = <<[job EXCEPT !.todo = @ \ {n}]>>]
                   /\ UNCHANGED session
    /\ outcome' = <<>>
    /\ UNCHANGED <<config, detect, clause, findings, text, runs, rows>>

\* lines 449-451: the button Refresh / Manage Analyses
RefreshAnalyses(s) ==
    /\ ButtonsShown(s)
    /\ session' = [session EXCEPT ![s] =
                      Put(@, "current_analyses", list_analyses(db, UserId(s)))]
    /\ outcome' = <<>>
    /\ UNCHANGED <<config, db, script, detect, clause, findings, text, runs, rows>>

\* lines 489-492: the bin button of one row of the list
ClickDelete(s, id) ==
    /\ ButtonsShown(s)
    /\ id \in ShownAnalyses(s)
    /\ session' = [session EXCEPT ![s] = Put(@, "confirm_delete_id", id)]
    /\ outcome' = <<>>
    /\ UNCHANGED <<config, db, script, detect, clause, findings, text, runs, rows>>

\* lines 508-519: the button Yes - Delete of the confirmation dialog
ConfirmDelete(s) ==
    /\ ButtonsShown(s)
    /\ "confirm_delete_id" \in DOMAIN session[s]
    /\ LET cid == session[s]["confirm_delete_id"]
       IN  \E failure \in DeleteFailures(config.backend) :
              /\ db' = delete_analysis(db, config.backend, cid, failure)
              /\ outcome' = <<[fn |-> "delete_analysis", arg |-> cid,
                               failure |-> failure,
                               raised |-> delete_analysisRaises(failure)]>>
              /\ session' = [session EXCEPT ![s] =
                    IF delete_analysisRaises(failure)
                    THEN Pop(@, "confirm_delete_id")
                    ELSE Pop(Pop(@, "confirm_delete_id"), "current_analyses")]
    /\ UNCHANGED <<config, script, detect, clause, findings, text, runs, rows>>

\* lines 521-523: the Cancel button of the confirmation dialog
CancelDelete(s) ==
    /\ ButtonsShown(s)
    /\ "confirm_delete_id" \in DOMAIN session[s]
    /\ session' = [session EXCEPT ![s] = Pop(@, "confirm_delete_id")]
    /\ outcome' = <<>>
    /\ UNCHANGED <<config, db, script, detect, clause, findings, text, runs, rows>>

NextApp ==
    \E s \in Sessions :
        \/ \E u \in Users : Login(s, u)
        \/ Logout(s)
        \/ ViewContract(s)
        \/ SaveAnalysis(s)
        \/ SaveEmbedding(s)
        \/ RefreshAnalyses(s)
        \/ \E id \in 1..MaxAnalyses : ClickDelete(s, id)
        \/ ConfirmDelete(s)
        \/ CancelDelete(s)

SpecApp == InitApp /\ [][NextApp]_vars

-----------------------------------------------------------------------------
(* Properties of the store and of the sessions *)

\* the rows of the three tables that refer to the analysis id
RowsOf(d, id) ==
    [analyses |-> {a \in d.analyses : a.id = id},
     clauses |-> {c \in d.clauses : c.analysis_id = id},
     embeddings |-> {e \in d.embeddings : e.analysis_id = id}]

NoRows == [analyses |-> {}, clauses |-> {}, embeddings |-> {}]

\* what a step of the button Yes - Delete in session s does to the tables:
\* when delete_analysis returns, no row refers to the deleted id and the
\* rows of every other id are as before; when a DELETE statement fails,
\* every row is as before and the exception is raised
DeleteIsAllOrNothing(s) ==
    ConfirmDelete(s) =>
        LET cid == session[s]["confirm_delete_id"]
            call == outcome'[1]
        IN  /\ ~call.raised =>
                  /\ RowsOf(db', cid) = NoRows
                  /\ \A id \in (1..MaxAnalyses) \ {cid} : RowsOf(db', id) = RowsOf(db, id)
            /\ call.failure = "statement" =>
                  /\ call.raised
                  /\ \A id \in 1..MaxAnalyses : RowsOf(db', id) = RowsOf(db, id)

\* no row of clauses or embeddings refers to an analysis that does not exist
NoDanglingRows ==
    \A r \in db.clauses \cup db.embeddings : r.analysis_id \in AnalysisIds(db)

\* C27: delete_analysis is all-or-nothing (after a successful return no row
\* refers to the deleted id and the other rows are unchanged; a failing
\* DELETE statement is rolled back, removes no row and raises), and after any
\* sequence of saves and deletes no clause or embedding row refers to an
\* analysis that does not exist.
C27_DeleteLeavesNoDanglingRows ==
    /\ [][\A s \in Sessions : DeleteIsAllOrNothing(s)]_vars
    /\ []NoDanglingRows

\* the first half of C27 alone
C27_DeleteStepsAreAtomic == [][\A s \in Sessions : DeleteIsAllOrNothing(s)]_vars

\* a session that is logged out holds no key but user and analyses_refresh
\* and has no run under way
LoggedOutIsBare ==
    \A s \in Sessions :
        ~LoggedIn(s) => DOMAIN session[s] \subseteq KeepOnLogout /\ script[s] = <<>>

\* the handlers that analyse, save, list and delete act in session s only
\* while its user is logged in; a logged-out session changes by a login and
\* by nothing else; with every session logged out the tables stay as they
\* are
OnlyWhileLoggedIn ==
    /\ \A s \in Sessions :
          ~LoggedIn(s) =>
              /\ ~ViewContract(s)
              /\ ~SaveAnalysis(s)
              /\ ~SaveEmbedding(s)
              /\ ~RefreshAnalyses(s)
              /\ ~ConfirmDelete(s)
              /\ ~CancelDelete(s)
              /\ \A id \in 1..MaxAnalyses : ~ClickDelete(s, id)
              /\ session'[s] = session[s] \/ session'[s]["user"] # None
    /\ (\A s \in Sessions : ~LoggedIn(s)) => db' = db
    /\ \A s \in Sessions :
          (LoggedIn(s) /\ session'[s]["user"] = None) =>
              /\ DOMAIN session'[s] \subseteq KeepOnLogout
              /\ "confirm_delete_id" \notin DOMAIN session'[s]

\* C28: analysis, save, listing and delete run only while a user is logged
\* in; after logout the session user is None and every key other than user
\* and analyses_refresh, a pending confirm_delete_id included, is gone, so
\* that nothing is saved or deleted before a login.
C28_LoggedOutDoesNothing == []LoggedOutIsBare /\ [][OnlyWhileLoggedIn]_vars

\* a session has logged out after it had come to the main content, an
\* analysis is stored, and the other session has a delete pending
C28_Witness ==
    /\ DOMAIN session["tab1"] = KeepOnLogout
    /\ ~LoggedIn("tab1")
    /\ db.analyses # {}
    /\ "confirm_delete_id" \in DOMAIN session["tab2"]

\* C29: the list that list_analyses returns for the logged-in user holds
\* exactly the analyses whose owner_id is the id of that user, and the
\* button Yes - Delete removes only analyses that the user of the session
\* owns.
C29_OwnerIsolation ==
    [][\A s \in Sessions :
          /\ RefreshAnalyses(s) =>
                session'[s]["current_analyses"] =
                    {a.id : a \in {b \in db.analyses : b.owner_id = UserId(s)}}
          /\ ConfirmDelete(s) =>
                \A a \in db.analyses \ db'.analyses : a.owner_id = UserId(s)]_vars

====
